---- MODULE Spec2Model ----
(***************************************************************************)
(* The deploy-report pipeline of layercode-release-reports:                *)
(*   GET /deploy-report     (route handler: validation, deadline, mapping) *)
(*   fetchCommitsFromGitHub (paginated retrieval, merge filtering)         *)
(*   generateSummaryHtml    (model call, output validation, fallback)      *)
(* Strings are sequences of one-character strings, so that trimming,       *)
(* splitting, lower-casing, searching and escaping are computed as the     *)
(* code computes them.  A value that is null/undefined in the code is the  *)
(* sentinel None.                                                          *)
(***************************************************************************)
EXTENDS Integers, Sequences, FiniteSets, TLC

None == <<"null">>

(***************************** string helpers *****************************)

\* A string is a tuple of UTF-16 code units, one element each. A code unit is
\* written as itself where a string of this language can hold it, and as the
\* six characters \uXXXX (lower-case hexadecimal) where it cannot: the
\* backquote, the surrogates, and the units from U+0100 on whose low byte is
\* below 80. A code point is the tuple of its one or two code units.

\* the code points String.prototype.toLowerCase changes, with what it makes of
\* them (Unicode default case conversion); LowerChars[i] is UpperChars[i] lowered
UpperChars ==
  <<
     <<"A">>, <<"B">>, <<"C">>, <<"D">>, <<"E">>, <<"F">>, <<"G">>, <<"H">>, <<"I">>, <<"J">>,
     <<"K">>, <<"L">>, <<"M">>, <<"N">>, <<"O">>, <<"P">>, <<"Q">>, <<"R">>, <<"S">>, <<"T">>,
     <<"U">>, <<"V">>, <<"W">>, <<"X">>, <<"Y">>, <<"Z">>, <<"À">>, <<"Á">>, <<"Â">>, <<"Ã">>,
     <<"Ä">>, <<"Å">>, <<"Æ">>, <<"Ç">>, <<"È">>, <<"É">>, <<"Ê">>, <<"Ë">>, <<"Ì">>, <<"Í">>,
     <<"Î">>, <<"Ï">>, <<"Ð">>, <<"Ñ">>, <<"Ò">>, <<"Ó">>, <<"Ô">>, <<"Õ">>, <<"Ö">>, <<"Ø">>,
     <<"Ù">>, <<"Ú">>, <<"Û">>, <<"Ü">>, <<"Ý">>, <<"Þ">>, <<"\\u0100">>, <<"\\u0102">>,
     <<"\\u0104">>, <<"\\u0106">>, <<"\\u0108">>, <<"\\u010a">>, <<"\\u010c">>, <<"\\u010e">>,
     <<"\\u0110">>, <<"\\u0112">>, <<"\\u0114">>, <<"\\u0116">>, <<"\\u0118">>, <<"\\u011a">>,
     <<"\\u011c">>, <<"\\u011e">>, <<"\\u0120">>, <<"\\u0122">>, <<"\\u0124">>, <<"\\u0126">>,
     <<"\\u0128">>, <<"\\u012a">>, <<"\\u012c">>, <<"\\u012e">>, <<"\\u0130">>, <<"\\u0132">>,
     <<"\\u0134">>, <<"\\u0136">>, <<"\\u0139">>, <<"\\u013b">>, <<"\\u013d">>, <<"\\u013f">>,
     <<"\\u0141">>, <<"\\u0143">>, <<"\\u0145">>, <<"\\u0147">>, <<"\\u014a">>, <<"\\u014c">>,
     <<"\\u014e">>, <<"\\u0150">>, <<"\\u0152">>, <<"\\u0154">>, <<"\\u0156">>, <<"\\u0158">>,
     <<"\\u015a">>, <<"\\u015c">>, <<"\\u015e">>, <<"\\u0160">>, <<"\\u0162">>, <<"\\u0164">>,
     <<"\\u0166">>, <<"\\u0168">>, <<"\\u016a">>, <<"\\u016c">>, <<"\\u016e">>, <<"\\u0170">>,
     <<"\\u0172">>, <<"\\u0174">>, <<"\\u0176">>, <<"\\u0178">>, <<"\\u0179">>, <<"\\u017b">>,
     <<"\\u017d">>, <<"Ɓ">>, <<"Ƃ">>, <<"Ƅ">>, <<"Ɔ">>, <<"Ƈ">>, <<"Ɖ">>, <<"Ɗ">>, <<"Ƌ">>,
     <<"Ǝ">>, <<"Ə">>, <<"Ɛ">>, <<"Ƒ">>, <<"Ɠ">>, <<"Ɣ">>, <<"Ɩ">>, <<"Ɨ">>, <<"Ƙ">>, <<"Ɯ">>,
     <<"Ɲ">>, <<"Ɵ">>, <<"Ơ">>, <<"Ƣ">>, <<"Ƥ">>, <<"Ʀ">>, <<"Ƨ">>, <<"Ʃ">>, <<"Ƭ">>, <<"Ʈ">>,
     <<"Ư">>, <<"Ʊ">>, <<"Ʋ">>, <<"Ƴ">>, <<"Ƶ">>, <<"Ʒ">>, <<"Ƹ">>, <<"Ƽ">>, <<"Ǆ">>, <<"ǅ">>,
     <<"Ǉ">>, <<"ǈ">>, <<"Ǌ">>, <<"ǋ">>, <<"Ǎ">>, <<"Ǐ">>, <<"Ǒ">>, <<"Ǔ">>, <<"Ǖ">>, <<"Ǘ">>,
     <<"Ǚ">>, <<"Ǜ">>, <<"Ǟ">>, <<"Ǡ">>, <<"Ǣ">>, <<"Ǥ">>, <<"Ǧ">>, <<"Ǩ">>, <<"Ǫ">>, <<"Ǭ">>,
     <<"Ǯ">>, <<"Ǳ">>, <<"ǲ">>, <<"Ǵ">>, <<"Ƕ">>, <<"Ƿ">>, <<"Ǹ">>, <<"Ǻ">>, <<"Ǽ">>, <<"Ǿ">>,
     <<"\\u0200">>, <<"\\u0202">>, <<"\\u0204">>, <<"\\u0206">>, <<"\\u0208">>, <<"\\u020a">>,
     <<"\\u020c">>, <<"\\u020e">>, <<"\\u0210">>, <<"\\u0212">>, <<"\\u0214">>, <<"\\u0216">>,
     <<"\\u0218">>, <<"\\u021a">>, <<"\\u021c">>, <<"\\u021e">>, <<"\\u0220">>, <<"\\u0222">>,
     <<"\\u0224">>, <<"\\u0226">>, <<"\\u0228">>, <<"\\u022a">>, <<"\\u022c">>, <<"\\u022e">>,
     <<"\\u0230">>, <<"\\u0232">>, <<"\\u023a">>, <<"\\u023b">>, <<"\\u023d">>, <<"\\u023e">>,
     <<"\\u0241">>, <<"\\u0243">>, <<"\\u0244">>, <<"\\u0245">>, <<"\\u0246">>, <<"\\u0248">>,
     <<"\\u024a">>, <<"\\u024c">>, <<"\\u024e">>, <<"\\u0370">>, <<"\\u0372">>, <<"\\u0376">>,
     <<"\\u037f">>, <<"Ά">>, <<"Έ">>, <<"Ή">>, <<"Ί">>, <<"Ό">>, <<"Ύ">>, <<"Ώ">>, <<"Α">>,
     <<"Β">>, <<"Γ">>, <<"Δ">>, <<"Ε">>, <<"Ζ">>, <<"Η">>, <<"Θ">>, <<"Ι">>, <<"Κ">>, <<"Λ">>,
     <<"Μ">>, <<"Ν">>, <<"Ξ">>, <<"Ο">>, <<"Π">>, <<"Ρ">>, <<"Σ">>, <<"Τ">>, <<"Υ">>, <<"Φ">>,
     <<"Χ">>, <<"Ψ">>, <<"Ω">>, <<"Ϊ">>, <<"Ϋ">>, <<"Ϗ">>, <<"Ϙ">>, <<"Ϛ">>, <<"Ϝ">>, <<"Ϟ">>,
     <<"Ϡ">>, <<"Ϣ">>, <<"Ϥ">>, <<"Ϧ">>, <<"Ϩ">>, <<"Ϫ">>, <<"Ϭ">>, <<"Ϯ">>, <<"ϴ">>, <<"Ϸ">>,
     <<"Ϲ">>, <<"Ϻ">>, <<"Ͻ">>, <<"Ͼ">>, <<"Ͽ">>, <<"\\u0400">>, <<"\\u0401">>, <<"\\u0402">>,
     <<"\\u0403">>, <<"\\u0404">>, <<"\\u0405">>, <<"\\u0406">>, <<"\\u0407">>, <<"\\u0408">>,
     <<"\\u0409">>, <<"\\u040a">>, <<"\\u040b">>, <<"\\u040c">>, <<"\\u040d">>, <<"\\u040e">>,
     <<"\\u040f">>, <<"\\u0410">>, <<"\\u0411">>, <<"\\u0412">>, <<"\\u0413">>, <<"\\u0414">>,
     <<"\\u0415">>, <<"\\u0416">>, <<"\\u0417">>, <<"\\u0418">>, <<"\\u0419">>, <<"\\u041a">>,
     <<"\\u041b">>, <<"\\u041c">>, <<"\\u041d">>, <<"\\u041e">>, <<"\\u041f">>, <<"\\u0420">>,
     <<"\\u0421">>, <<"\\u0422">>, <<"\\u0423">>, <<"\\u0424">>, <<"\\u0425">>, <<"\\u0426">>,
     <<"\\u0427">>, <<"\\u0428">>, <<"\\u0429">>, <<"\\u042a">>, <<"\\u042b">>, <<"\\u042c">>,
     <<"\\u042d">>, <<"\\u042e">>, <<"\\u042f">>, <<"\\u0460">>, <<"\\u0462">>, <<"\\u0464">>,
     <<"\\u0466">>, <<"\\u0468">>, <<"\\u046a">>, <<"\\u046c">>, <<"\\u046e">>, <<"\\u0470">>,
     <<"\\u0472">>, <<"\\u0474">>, <<"\\u0476">>, <<"\\u0478">>, <<"\\u047a">>, <<"\\u047c">>,
     <<"\\u047e">>, <<"Ҁ">>, <<"Ҋ">>, <<"Ҍ">>, <<"Ҏ">>, <<"Ґ">>, <<"Ғ">>, <<"Ҕ">>, <<"Җ">>,
     <<"Ҙ">>, <<"Қ">>, <<"Ҝ">>, <<"Ҟ">>, <<"Ҡ">>, <<"Ң">>, <<"Ҥ">>, <<"Ҧ">>, <<"Ҩ">>, <<"Ҫ">>,
     <<"Ҭ">>, <<"Ү">>, <<"Ұ">>, <<"Ҳ">>, <<"Ҵ">>, <<"Ҷ">>, <<"Ҹ">>, <<"Һ">>, <<"Ҽ">>, <<"Ҿ">>,
     <<"Ӏ">>, <<"Ӂ">>, <<"Ӄ">>, <<"Ӆ">>, <<"Ӈ">>, <<"Ӊ">>, <<"Ӌ">>, <<"Ӎ">>, <<"Ӑ">>, <<"Ӓ">>,
     <<"Ӕ">>, <<"Ӗ">>, <<"Ә">>, <<"Ӛ">>, <<"Ӝ">>, <<"Ӟ">>, <<"Ӡ">>, <<"Ӣ">>, <<"Ӥ">>, <<"Ӧ">>,
     <<"Ө">>, <<"Ӫ">>, <<"Ӭ">>, <<"Ӯ">>, <<"Ӱ">>, <<"Ӳ">>, <<"Ӵ">>, <<"Ӷ">>, <<"Ӹ">>, <<"Ӻ">>,
     <<"Ӽ">>, <<"Ӿ">>, <<"\\u0500">>, <<"\\u0502">>, <<"\\u0504">>, <<"\\u0506">>, <<"\\u0508">>,
     <<"\\u050a">>, <<"\\u050c">>, <<"\\u050e">>, <<"\\u0510">>, <<"\\u0512">>, <<"\\u0514">>,
     <<"\\u0516">>, <<"\\u0518">>, <<"\\u051a">>, <<"\\u051c">>, <<"\\u051e">>, <<"\\u0520">>,
     <<"\\u0522">>, <<"\\u0524">>, <<"\\u0526">>, <<"\\u0528">>, <<"\\u052a">>, <<"\\u052c">>,
     <<"\\u052e">>, <<"\\u0531">>, <<"\\u0532">>, <<"\\u0533">>, <<"\\u0534">>, <<"\\u0535">>,
     <<"\\u0536">>, <<"\\u0537">>, <<"\\u0538">>, <<"\\u0539">>, <<"\\u053a">>, <<"\\u053b">>,
     <<"\\u053c">>, <<"\\u053d">>, <<"\\u053e">>, <<"\\u053f">>, <<"\\u0540">>, <<"\\u0541">>,
     <<"\\u0542">>, <<"\\u0543">>, <<"\\u0544">>, <<"\\u0545">>, <<"\\u0546">>, <<"\\u0547">>,
     <<"\\u0548">>, <<"\\u0549">>, <<"\\u054a">>, <<"\\u054b">>, <<"\\u054c">>, <<"\\u054d">>,
     <<"\\u054e">>, <<"\\u054f">>, <<"\\u0550">>, <<"\\u0551">>, <<"\\u0552">>, <<"\\u0553">>,
     <<"\\u0554">>, <<"\\u0555">>, <<"\\u0556">>, <<"Ⴀ">>, <<"Ⴁ">>, <<"Ⴂ">>, <<"Ⴃ">>, <<"Ⴄ">>,
     <<"Ⴅ">>, <<"Ⴆ">>, <<"Ⴇ">>, <<"Ⴈ">>, <<"Ⴉ">>, <<"Ⴊ">>, <<"Ⴋ">>, <<"Ⴌ">>, <<"Ⴍ">>, <<"Ⴎ">>,
     <<"Ⴏ">>, <<"Ⴐ">>, <<"Ⴑ">>, <<"Ⴒ">>, <<"Ⴓ">>, <<"Ⴔ">>, <<"Ⴕ">>, <<"Ⴖ">>, <<"Ⴗ">>, <<"Ⴘ">>,
     <<"Ⴙ">>, <<"Ⴚ">>, <<"Ⴛ">>, <<"Ⴜ">>, <<"Ⴝ">>, <<"Ⴞ">>, <<"Ⴟ">>, <<"Ⴠ">>, <<"Ⴡ">>, <<"Ⴢ">>,
     <<"Ⴣ">>, <<"Ⴤ">>, <<"Ⴥ">>, <<"Ⴧ">>, <<"Ⴭ">>, <<"Ꭰ">>, <<"Ꭱ">>, <<"Ꭲ">>, <<"Ꭳ">>, <<"Ꭴ">>,
     <<"Ꭵ">>, <<"Ꭶ">>, <<"Ꭷ">>, <<"Ꭸ">>, <<"Ꭹ">>, <<"Ꭺ">>, <<"Ꭻ">>, <<"Ꭼ">>, <<"Ꭽ">>, <<"Ꭾ">>,
     <<"Ꭿ">>, <<"Ꮀ">>, <<"Ꮁ">>, <<"Ꮂ">>, <<"Ꮃ">>, <<"Ꮄ">>, <<"Ꮅ">>, <<"Ꮆ">>, <<"Ꮇ">>, <<"Ꮈ">>,
     <<"Ꮉ">>, <<"Ꮊ">>, <<"Ꮋ">>, <<"Ꮌ">>, <<"Ꮍ">>, <<"Ꮎ">>, <<"Ꮏ">>, <<"Ꮐ">>, <<"Ꮑ">>, <<"Ꮒ">>,
     <<"Ꮓ">>, <<"Ꮔ">>, <<"Ꮕ">>, <<"Ꮖ">>, <<"Ꮗ">>, <<"Ꮘ">>, <<"Ꮙ">>, <<"Ꮚ">>, <<"Ꮛ">>, <<"Ꮜ">>,
     <<"Ꮝ">>, <<"Ꮞ">>, <<"Ꮟ">>, <<"Ꮠ">>, <<"Ꮡ">>, <<"Ꮢ">>, <<"Ꮣ">>, <<"Ꮤ">>, <<"Ꮥ">>, <<"Ꮦ">>,
     <<"Ꮧ">>, <<"Ꮨ">>, <<"Ꮩ">>, <<"Ꮪ">>, <<"Ꮫ">>, <<"Ꮬ">>, <<"Ꮭ">>, <<"Ꮮ">>, <<"Ꮯ">>, <<"Ꮰ">>,
     <<"Ꮱ">>, <<"Ꮲ">>, <<"Ꮳ">>, <<"Ꮴ">>, <<"Ꮵ">>, <<"Ꮶ">>, <<"Ꮷ">>, <<"Ꮸ">>, <<"Ꮹ">>, <<"Ꮺ">>,
     <<"Ꮻ">>, <<"Ꮼ">>, <<"Ꮽ">>, <<"Ꮾ">>, <<"Ꮿ">>, <<"Ᏸ">>, <<"Ᏹ">>, <<"Ᏺ">>, <<"Ᏻ">>, <<"Ᏼ">>,
     <<"Ᏽ">>, <<"Ᲊ">>, <<"Ა">>, <<"Ბ">>, <<"Გ">>, <<"Დ">>, <<"Ე">>, <<"Ვ">>, <<"Ზ">>, <<"Თ">>,
     <<"Ი">>, <<"Კ">>, <<"Ლ">>, <<"Მ">>, <<"Ნ">>, <<"Ო">>, <<"Პ">>, <<"Ჟ">>, <<"Რ">>, <<"Ს">>,
     <<"Ტ">>, <<"Უ">>, <<"Ფ">>, <<"Ქ">>, <<"Ღ">>, <<"Ყ">>, <<"Შ">>, <<"Ჩ">>, <<"Ც">>, <<"Ძ">>,
     <<"Წ">>, <<"Ჭ">>, <<"Ხ">>, <<"Ჯ">>, <<"Ჰ">>, <<"Ჱ">>, <<"Ჲ">>, <<"Ჳ">>, <<"Ჴ">>, <<"Ჵ">>,
     <<"Ჶ">>, <<"Ჷ">>, <<"Ჸ">>, <<"Ჹ">>, <<"Ჺ">>, <<"Ჽ">>, <<"Ჾ">>, <<"Ჿ">>, <<"\\u1e00">>,
     <<"\\u1e02">>, <<"\\u1e04">>, <<"\\u1e06">>, <<"\\u1e08">>, <<"\\u1e0a">>, <<"\\u1e0c">>,
     <<"\\u1e0e">>, <<"\\u1e10">>, <<"\\u1e12">>, <<"\\u1e14">>, <<"\\u1e16">>, <<"\\u1e18">>,
     <<"\\u1e1a">>, <<"\\u1e1c">>, <<"\\u1e1e">>, <<"\\u1e20">>, <<"\\u1e22">>, <<"\\u1e24">>,
     <<"\\u1e26">>, <<"\\u1e28">>, <<"\\u1e2a">>, <<"\\u1e2c">>, <<"\\u1e2e">>, <<"\\u1e30">>,
     <<"\\u1e32">>, <<"\\u1e34">>, <<"\\u1e36">>, <<"\\u1e38">>, <<"\\u1e3a">>, <<"\\u1e3c">>,
     <<"\\u1e3e">>, <<"\\u1e40">>, <<"\\u1e42">>, <<"\\u1e44">>, <<"\\u1e46">>, <<"\\u1e48">>,
     <<"\\u1e4a">>, <<"\\u1e4c">>, <<"\\u1e4e">>, <<"\\u1e50">>, <<"\\u1e52">>, <<"\\u1e54">>,
     <<"\\u1e56">>, <<"\\u1e58">>, <<"\\u1e5a">>, <<"\\u1e5c">>, <<"\\u1e5e">>, <<"\\u1e60">>,
     <<"\\u1e62">>, <<"\\u1e64">>, <<"\\u1e66">>, <<"\\u1e68">>, <<"\\u1e6a">>, <<"\\u1e6c">>,
     <<"\\u1e6e">>, <<"\\u1e70">>, <<"\\u1e72">>, <<"\\u1e74">>, <<"\\u1e76">>, <<"\\u1e78">>,
     <<"\\u1e7a">>, <<"\\u1e7c">>, <<"\\u1e7e">>, <<"Ẁ">>, <<"Ẃ">>, <<"Ẅ">>, <<"Ẇ">>, <<"Ẉ">>,
     <<"Ẋ">>, <<"Ẍ">>, <<"Ẏ">>, <<"Ẑ">>, <<"Ẓ">>, <<"Ẕ">>, <<"ẞ">>, <<"Ạ">>, <<"Ả">>, <<"Ấ">>,
     <<"Ầ">>, <<"Ẩ">>, <<"Ẫ">>, <<"Ậ">>, <<"Ắ">>, <<"Ằ">>, <<"Ẳ">>, <<"Ẵ">>, <<"Ặ">>, <<"Ẹ">>,
     <<"Ẻ">>, <<"Ẽ">>, <<"Ế">>, <<"Ề">>, <<"Ể">>, <<"Ễ">>, <<"Ệ">>, <<"Ỉ">>, <<"Ị">>, <<"Ọ">>,
     <<"Ỏ">>, <<"Ố">>, <<"Ồ">>, <<"Ổ">>, <<"Ỗ">>, <<"Ộ">>, <<"Ớ">>, <<"Ờ">>, <<"Ở">>, <<"Ỡ">>,
     <<"Ợ">>, <<"Ụ">>, <<"Ủ">>, <<"Ứ">>, <<"Ừ">>, <<"Ử">>, <<"Ữ">>, <<"Ự">>, <<"Ỳ">>, <<"Ỵ">>,
     <<"Ỷ">>, <<"Ỹ">>, <<"Ỻ">>, <<"Ỽ">>, <<"Ỿ">>, <<"\\u1f08">>, <<"\\u1f09">>, <<"\\u1f0a">>,
     <<"\\u1f0b">>, <<"\\u1f0c">>, <<"\\u1f0d">>, <<"\\u1f0e">>, <<"\\u1f0f">>, <<"\\u1f18">>,
     <<"\\u1f19">>, <<"\\u1f1a">>, <<"\\u1f1b">>, <<"\\u1f1c">>, <<"\\u1f1d">>, <<"\\u1f28">>,
     <<"\\u1f29">>, <<"\\u1f2a">>, <<"\\u1f2b">>, <<"\\u1f2c">>, <<"\\u1f2d">>, <<"\\u1f2e">>,
     <<"\\u1f2f">>, <<"\\u1f38">>, <<"\\u1f39">>, <<"\\u1f3a">>, <<"\\u1f3b">>, <<"\\u1f3c">>,
     <<"\\u1f3d">>, <<"\\u1f3e">>, <<"\\u1f3f">>, <<"\\u1f48">>, <<"\\u1f49">>, <<"\\u1f4a">>,
     <<"\\u1f4b">>, <<"\\u1f4c">>, <<"\\u1f4d">>, <<"\\u1f59">>, <<"\\u1f5b">>, <<"\\u1f5d">>,
     <<"\\u1f5f">>, <<"\\u1f68">>, <<"\\u1f69">>, <<"\\u1f6a">>, <<"\\u1f6b">>, <<"\\u1f6c">>,
     <<"\\u1f6d">>, <<"\\u1f6e">>, <<"\\u1f6f">>, <<"ᾈ">>, <<"ᾉ">>, <<"ᾊ">>, <<"ᾋ">>, <<"ᾌ">>,
     <<"ᾍ">>, <<"ᾎ">>, <<"ᾏ">>, <<"ᾘ">>, <<"ᾙ">>, <<"ᾚ">>, <<"ᾛ">>, <<"ᾜ">>, <<"ᾝ">>, <<"ᾞ">>,
     <<"ᾟ">>, <<"ᾨ">>, <<"ᾩ">>, <<"ᾪ">>, <<"ᾫ">>, <<"ᾬ">>, <<"ᾭ">>, <<"ᾮ">>, <<"ᾯ">>, <<"Ᾰ">>,
     <<"Ᾱ">>, <<"Ὰ">>, <<"Ά">>, <<"ᾼ">>, <<"Ὲ">>, <<"Έ">>, <<"Ὴ">>, <<"Ή">>, <<"ῌ">>, <<"Ῐ">>,
     <<"Ῑ">>, <<"Ὶ">>, <<"Ί">>, <<"Ῠ">>, <<"Ῡ">>, <<"Ὺ">>, <<"Ύ">>, <<"Ῥ">>, <<"Ὸ">>, <<"Ό">>,
     <<"Ὼ">>, <<"Ώ">>, <<"ῼ">>, <<"\\u2126">>, <<"\\u212a">>, <<"\\u212b">>, <<"\\u2132">>,
     <<"\\u2160">>, <<"\\u2161">>, <<"\\u2162">>, <<"\\u2163">>, <<"\\u2164">>, <<"\\u2165">>,
     <<"\\u2166">>, <<"\\u2167">>, <<"\\u2168">>, <<"\\u2169">>, <<"\\u216a">>, <<"\\u216b">>,
     <<"\\u216c">>, <<"\\u216d">>, <<"\\u216e">>, <<"\\u216f">>, <<"Ↄ">>, <<"Ⓐ">>, <<"Ⓑ">>,
     <<"Ⓒ">>, <<"Ⓓ">>, <<"Ⓔ">>, <<"Ⓕ">>, <<"Ⓖ">>, <<"Ⓗ">>, <<"Ⓘ">>, <<"Ⓙ">>, <<"Ⓚ">>, <<"Ⓛ">>,
     <<"Ⓜ">>, <<"Ⓝ">>, <<"Ⓞ">>, <<"Ⓟ">>, <<"Ⓠ">>, <<"Ⓡ">>, <<"Ⓢ">>, <<"Ⓣ">>, <<"Ⓤ">>, <<"Ⓥ">>,
     <<"Ⓦ">>, <<"Ⓧ">>, <<"Ⓨ">>, <<"Ⓩ">>, <<"\\u2c00">>, <<"\\u2c01">>, <<"\\u2c02">>,
     <<"\\u2c03">>, <<"\\u2c04">>, <<"\\u2c05">>, <<"\\u2c06">>, <<"\\u2c07">>, <<"\\u2c08">>,
     <<"\\u2c09">>, <<"\\u2c0a">>, <<"\\u2c0b">>, <<"\\u2c0c">>, <<"\\u2c0d">>, <<"\\u2c0e">>,
     <<"\\u2c0f">>, <<"\\u2c10">>, <<"\\u2c11">>, <<"\\u2c12">>, <<"\\u2c13">>, <<"\\u2c14">>,
     <<"\\u2c15">>, <<"\\u2c16">>, <<"\\u2c17">>, <<"\\u2c18">>, <<"\\u2c19">>, <<"\\u2c1a">>,
     <<"\\u2c1b">>, <<"\\u2c1c">>, <<"\\u2c1d">>, <<"\\u2c1e">>, <<"\\u2c1f">>, <<"\\u2c20">>,
     <<"\\u2c21">>, <<"\\u2c22">>, <<"\\u2c23">>, <<"\\u2c24">>, <<"\\u2c25">>, <<"\\u2c26">>,
     <<"\\u2c27">>, <<"\\u2c28">>, <<"\\u2c29">>, <<"\\u2c2a">>, <<"\\u2c2b">>, <<"\\u2c2c">>,
     <<"\\u2c2d">>, <<"\\u2c2e">>, <<"\\u2c2f">>, <<"\\u2c60">>, <<"\\u2c62">>, <<"\\u2c63">>,
     <<"\\u2c64">>, <<"\\u2c67">>, <<"\\u2c69">>, <<"\\u2c6b">>, <<"\\u2c6d">>, <<"\\u2c6e">>,
     <<"\\u2c6f">>, <<"\\u2c70">>, <<"\\u2c72">>, <<"\\u2c75">>, <<"\\u2c7e">>, <<"\\u2c7f">>,
     <<"Ⲁ">>, <<"Ⲃ">>, <<"Ⲅ">>, <<"Ⲇ">>, <<"Ⲉ">>, <<"Ⲋ">>, <<"Ⲍ">>, <<"Ⲏ">>, <<"Ⲑ">>, <<"Ⲓ">>,
     <<"Ⲕ">>, <<"Ⲗ">>, <<"Ⲙ">>, <<"Ⲛ">>, <<"Ⲝ">>, <<"Ⲟ">>, <<"Ⲡ">>, <<"Ⲣ">>, <<"Ⲥ">>, <<"Ⲧ">>,
     <<"Ⲩ">>, <<"Ⲫ">>, <<"Ⲭ">>, <<"Ⲯ">>, <<"Ⲱ">>, <<"Ⲳ">>, <<"Ⲵ">>, <<"Ⲷ">>, <<"Ⲹ">>, <<"Ⲻ">>,
     <<"Ⲽ">>, <<"Ⲿ">>, <<"Ⳁ">>, <<"Ⳃ">>, <<"Ⳅ">>, <<"Ⳇ">>, <<"Ⳉ">>, <<"Ⳋ">>, <<"Ⳍ">>, <<"Ⳏ">>,
     <<"Ⳑ">>, <<"Ⳓ">>, <<"Ⳕ">>, <<"Ⳗ">>, <<"Ⳙ">>, <<"Ⳛ">>, <<"Ⳝ">>, <<"Ⳟ">>, <<"Ⳡ">>, <<"Ⳣ">>,
     <<"Ⳬ">>, <<"Ⳮ">>, <<"Ⳳ">>, <<"\\ua640">>, <<"\\ua642">>, <<"\\ua644">>, <<"\\ua646">>,
     <<"\\ua648">>, <<"\\ua64a">>, <<"\\ua64c">>, <<"\\ua64e">>, <<"\\ua650">>, <<"\\ua652">>,
     <<"\\ua654">>, <<"\\ua656">>, <<"\\ua658">>, <<"\\ua65a">>, <<"\\ua65c">>, <<"\\ua65e">>,
     <<"\\ua660">>, <<"\\ua662">>, <<"\\ua664">>, <<"\\ua666">>, <<"\\ua668">>, <<"\\ua66a">>,
     <<"\\ua66c">>, <<"Ꚁ">>, <<"Ꚃ">>, <<"Ꚅ">>, <<"Ꚇ">>, <<"Ꚉ">>, <<"Ꚋ">>, <<"Ꚍ">>, <<"Ꚏ">>,
     <<"Ꚑ">>, <<"Ꚓ">>, <<"Ꚕ">>, <<"Ꚗ">>, <<"Ꚙ">>, <<"Ꚛ">>, <<"\\ua722">>, <<"\\ua724">>,
     <<"\\ua726">>, <<"\\ua728">>, <<"\\ua72a">>, <<"\\ua72c">>, <<"\\ua72e">>, <<"\\ua732">>,
     <<"\\ua734">>, <<"\\ua736">>, <<"\\ua738">>, <<"\\ua73a">>, <<"\\ua73c">>, <<"\\ua73e">>,
     <<"\\ua740">>, <<"\\ua742">>, <<"\\ua744">>, <<"\\ua746">>, <<"\\ua748">>, <<"\\ua74a">>,
     <<"\\ua74c">>, <<"\\ua74e">>, <<"\\ua750">>, <<"\\ua752">>, <<"\\ua754">>, <<"\\ua756">>,
     <<"\\ua758">>, <<"\\ua75a">>, <<"\\ua75c">>, <<"\\ua75e">>, <<"\\ua760">>, <<"\\ua762">>,
     <<"\\ua764">>, <<"\\ua766">>, <<"\\ua768">>, <<"\\ua76a">>, <<"\\ua76c">>, <<"\\ua76e">>,
     <<"\\ua779">>, <<"\\ua77b">>, <<"\\ua77d">>, <<"\\ua77e">>, <<"Ꞁ">>, <<"Ꞃ">>, <<"Ꞅ">>,
     <<"Ꞇ">>, <<"Ꞌ">>, <<"Ɥ">>, <<"Ꞑ">>, <<"Ꞓ">>, <<"Ꞗ">>, <<"Ꞙ">>, <<"Ꞛ">>, <<"Ꞝ">>, <<"Ꞟ">>,
     <<"Ꞡ">>, <<"Ꞣ">>, <<"Ꞥ">>, <<"Ꞧ">>, <<"Ꞩ">>, <<"Ɦ">>, <<"Ɜ">>, <<"Ɡ">>, <<"Ɬ">>, <<"Ɪ">>,
     <<"Ʞ">>, <<"Ʇ">>, <<"Ʝ">>, <<"Ꭓ">>, <<"Ꞵ">>, <<"Ꞷ">>, <<"Ꞹ">>, <<"Ꞻ">>, <<"Ꞽ">>, <<"Ꞿ">>,
     <<"Ꟁ">>, <<"Ꟃ">>, <<"Ꞔ">>, <<"Ʂ">>, <<"Ᶎ">>, <<"Ꟈ">>, <<"Ꟊ">>, <<"Ɤ">>, <<"Ꟍ">>, <<"꟎">>,
     <<"Ꟑ">>, <<"꟒">>, <<"꟔">>, <<"Ꟗ">>, <<"Ꟙ">>, <<"Ꟛ">>, <<"Ƛ">>, <<"Ꟶ">>, <<"\\uff21">>,
     <<"\\uff22">>, <<"\\uff23">>, <<"\\uff24">>, <<"\\uff25">>, <<"\\uff26">>, <<"\\uff27">>,
     <<"\\uff28">>, <<"\\uff29">>, <<"\\uff2a">>, <<"\\uff2b">>, <<"\\uff2c">>, <<"\\uff2d">>,
     <<"\\uff2e">>, <<"\\uff2f">>, <<"\\uff30">>, <<"\\uff31">>, <<"\\uff32">>, <<"\\uff33">>,
     <<"\\uff34">>, <<"\\uff35">>, <<"\\uff36">>, <<"\\uff37">>, <<"\\uff38">>, <<"\\uff39">>,
     <<"\\uff3a">>, <<"\\ud801", "\\udc00">>, <<"\\ud801", "\\udc01">>, <<"\\ud801", "\\udc02">>,
     <<"\\ud801", "\\udc03">>, <<"\\ud801", "\\udc04">>, <<"\\ud801", "\\udc05">>,
     <<"\\ud801", "\\udc06">>, <<"\\ud801", "\\udc07">>, <<"\\ud801", "\\udc08">>,
     <<"\\ud801", "\\udc09">>, <<"\\ud801", "\\udc0a">>, <<"\\ud801", "\\udc0b">>,
     <<"\\ud801", "\\udc0c">>, <<"\\ud801", "\\udc0d">>, <<"\\ud801", "\\udc0e">>,
     <<"\\ud801", "\\udc0f">>, <<"\\ud801", "\\udc10">>, <<"\\ud801", "\\udc11">>,
     <<"\\ud801", "\\udc12">>, <<"\\ud801", "\\udc13">>, <<"\\ud801", "\\udc14">>,
     <<"\\ud801", "\\udc15">>, <<"\\ud801", "\\udc16">>, <<"\\ud801", "\\udc17">>,
     <<"\\ud801", "\\udc18">>, <<"\\ud801", "\\udc19">>, <<"\\ud801", "\\udc1a">>,
     <<"\\ud801", "\\udc1b">>, <<"\\ud801", "\\udc1c">>, <<"\\ud801", "\\udc1d">>,
     <<"\\ud801", "\\udc1e">>, <<"\\ud801", "\\udc1f">>, <<"\\ud801", "\\udc20">>,
     <<"\\ud801", "\\udc21">>, <<"\\ud801", "\\udc22">>, <<"\\ud801", "\\udc23">>,
     <<"\\ud801", "\\udc24">>, <<"\\ud801", "\\udc25">>, <<"\\ud801", "\\udc26">>,
     <<"\\ud801", "\\udc27">>, <<"\\ud801", "\\udcb0">>, <<"\\ud801", "\\udcb1">>,
     <<"\\ud801", "\\udcb2">>, <<"\\ud801", "\\udcb3">>, <<"\\ud801", "\\udcb4">>,
     <<"\\ud801", "\\udcb5">>, <<"\\ud801", "\\udcb6">>, <<"\\ud801", "\\udcb7">>,
     <<"\\ud801", "\\udcb8">>, <<"\\ud801", "\\udcb9">>, <<"\\ud801", "\\udcba">>,
     <<"\\ud801", "\\udcbb">>, <<"\\ud801", "\\udcbc">>, <<"\\ud801", "\\udcbd">>,
     <<"\\ud801", "\\udcbe">>, <<"\\ud801", "\\udcbf">>, <<"\\ud801", "\\udcc0">>,
     <<"\\ud801", "\\udcc1">>, <<"\\ud801", "\\udcc2">>, <<"\\ud801", "\\udcc3">>,
     <<"\\ud801", "\\udcc4">>, <<"\\ud801", "\\udcc5">>, <<"\\ud801", "\\udcc6">>,
     <<"\\ud801", "\\udcc7">>, <<"\\ud801", "\\udcc8">>, <<"\\ud801", "\\udcc9">>,
     <<"\\ud801", "\\udcca">>, <<"\\ud801", "\\udccb">>, <<"\\ud801", "\\udccc">>,
     <<"\\ud801", "\\udccd">>, <<"\\ud801", "\\udcce">>, <<"\\ud801", "\\udccf">>,
     <<"\\ud801", "\\udcd0">>, <<"\\ud801", "\\udcd1">>, <<"\\ud801", "\\udcd2">>,
     <<"\\ud801", "\\udcd3">>, <<"\\ud801", "\\udd70">>, <<"\\ud801", "\\udd71">>,
     <<"\\ud801", "\\udd72">>, <<"\\ud801", "\\udd73">>, <<"\\ud801", "\\udd74">>,
     <<"\\ud801", "\\udd75">>, <<"\\ud801", "\\udd76">>, <<"\\ud801", "\\udd77">>,
     <<"\\ud801", "\\udd78">>, <<"\\ud801", "\\udd79">>, <<"\\ud801", "\\udd7a">>,
     <<"\\ud801", "\\udd7c">>, <<"\\ud801", "\\udd7d">>, <<"\\ud801", "\\udd7e">>,
     <<"\\ud801", "\\udd7f">>, <<"\\ud801", "\\udd80">>, <<"\\ud801", "\\udd81">>,
     <<"\\ud801", "\\udd82">>, <<"\\ud801", "\\udd83">>, <<"\\ud801", "\\udd84">>,
     <<"\\ud801", "\\udd85">>, <<"\\ud801", "\\udd86">>, <<"\\ud801", "\\udd87">>,
     <<"\\ud801", "\\udd88">>, <<"\\ud801", "\\udd89">>, <<"\\ud801", "\\udd8a">>,
     <<"\\ud801", "\\udd8c">>, <<"\\ud801", "\\udd8d">>, <<"\\ud801", "\\udd8e">>,
     <<"\\ud801", "\\udd8f">>, <<"\\ud801", "\\udd90">>, <<"\\ud801", "\\udd91">>,
     <<"\\ud801", "\\udd92">>, <<"\\ud801", "\\udd94">>, <<"\\ud801", "\\udd95">>,
     <<"\\ud803", "\\udc80">>, <<"\\ud803", "\\udc81">>, <<"\\ud803", "\\udc82">>,
     <<"\\ud803", "\\udc83">>, <<"\\ud803", "\\udc84">>, <<"\\ud803", "\\udc85">>,
     <<"\\ud803", "\\udc86">>, <<"\\ud803", "\\udc87">>, <<"\\ud803", "\\udc88">>,
     <<"\\ud803", "\\udc89">>, <<"\\ud803", "\\udc8a">>, <<"\\ud803", "\\udc8b">>,
     <<"\\ud803", "\\udc8c">>, <<"\\ud803", "\\udc8d">>, <<"\\ud803", "\\udc8e">>,
     <<"\\ud803", "\\udc8f">>, <<"\\ud803", "\\udc90">>, <<"\\ud803", "\\udc91">>,
     <<"\\ud803", "\\udc92">>, <<"\\ud803", "\\udc93">>, <<"\\ud803", "\\udc94">>,
     <<"\\ud803", "\\udc95">>, <<"\\ud803", "\\udc96">>, <<"\\ud803", "\\udc97">>,
     <<"\\ud803", "\\udc98">>, <<"\\ud803", "\\udc99">>, <<"\\ud803", "\\udc9a">>,
     <<"\\ud803", "\\udc9b">>, <<"\\ud803", "\\udc9c">>, <<"\\ud803", "\\udc9d">>,
     <<"\\ud803", "\\udc9e">>, <<"\\ud803", "\\udc9f">>, <<"\\ud803", "\\udca0">>,
     <<"\\ud803", "\\udca1">>, <<"\\ud803", "\\udca2">>, <<"\\ud803", "\\udca3">>,
     <<"\\ud803", "\\udca4">>, <<"\\ud803", "\\udca5">>, <<"\\ud803", "\\udca6">>,
     <<"\\ud803", "\\udca7">>, <<"\\ud803", "\\udca8">>, <<"\\ud803", "\\udca9">>,
     <<"\\ud803", "\\udcaa">>, <<"\\ud803", "\\udcab">>, <<"\\ud803", "\\udcac">>,
     <<"\\ud803", "\\udcad">>, <<"\\ud803", "\\udcae">>, <<"\\ud803", "\\udcaf">>,
     <<"\\ud803", "\\udcb0">>, <<"\\ud803", "\\udcb1">>, <<"\\ud803", "\\udcb2">>,
     <<"\\ud803", "\\udd50">>, <<"\\ud803", "\\udd51">>, <<"\\ud803", "\\udd52">>,
     <<"\\ud803", "\\udd53">>, <<"\\ud803", "\\udd54">>, <<"\\ud803", "\\udd55">>,
     <<"\\ud803", "\\udd56">>, <<"\\ud803", "\\udd57">>, <<"\\ud803", "\\udd58">>,
     <<"\\ud803", "\\udd59">>, <<"\\ud803", "\\udd5a">>, <<"\\ud803", "\\udd5b">>,
     <<"\\ud803", "\\udd5c">>, <<"\\ud803", "\\udd5d">>, <<"\\ud803", "\\udd5e">>,
     <<"\\ud803", "\\udd5f">>, <<"\\ud803", "\\udd60">>, <<"\\ud803", "\\udd61">>,
     <<"\\ud803", "\\udd62">>, <<"\\ud803", "\\udd63">>, <<"\\ud803", "\\udd64">>,
     <<"\\ud803", "\\udd65">>, <<"\\ud806", "\\udca0">>, <<"\\ud806", "\\udca1">>,
     <<"\\ud806", "\\udca2">>, <<"\\ud806", "\\udca3">>, <<"\\ud806", "\\udca4">>,
     <<"\\ud806", "\\udca5">>, <<"\\ud806", "\\udca6">>, <<"\\ud806", "\\udca7">>,
     <<"\\ud806", "\\udca8">>, <<"\\ud806", "\\udca9">>, <<"\\ud806", "\\udcaa">>,
     <<"\\ud806", "\\udcab">>, <<"\\ud806", "\\udcac">>, <<"\\ud806", "\\udcad">>,
     <<"\\ud806", "\\udcae">>, <<"\\ud806", "\\udcaf">>, <<"\\ud806", "\\udcb0">>,
     <<"\\ud806", "\\udcb1">>, <<"\\ud806", "\\udcb2">>, <<"\\ud806", "\\udcb3">>,
     <<"\\ud806", "\\udcb4">>, <<"\\ud806", "\\udcb5">>, <<"\\ud806", "\\udcb6">>,
     <<"\\ud806", "\\udcb7">>, <<"\\ud806", "\\udcb8">>, <<"\\ud806", "\\udcb9">>,
     <<"\\ud806", "\\udcba">>, <<"\\ud806", "\\udcbb">>, <<"\\ud806", "\\udcbc">>,
     <<"\\ud806", "\\udcbd">>, <<"\\ud806", "\\udcbe">>, <<"\\ud806", "\\udcbf">>,
     <<"\\ud81b", "\\ude40">>, <<"\\ud81b", "\\ude41">>, <<"\\ud81b", "\\ude42">>,
     <<"\\ud81b", "\\ude43">>, <<"\\ud81b", "\\ude44">>, <<"\\ud81b", "\\ude45">>,
     <<"\\ud81b", "\\ude46">>, <<"\\ud81b", "\\ude47">>, <<"\\ud81b", "\\ude48">>,
     <<"\\ud81b", "\\ude49">>, <<"\\ud81b", "\\ude4a">>, <<"\\ud81b", "\\ude4b">>,
     <<"\\ud81b", "\\ude4c">>, <<"\\ud81b", "\\ude4d">>, <<"\\ud81b", "\\ude4e">>,
     <<"\\ud81b", "\\ude4f">>, <<"\\ud81b", "\\ude50">>, <<"\\ud81b", "\\ude51">>,
     <<"\\ud81b", "\\ude52">>, <<"\\ud81b", "\\ude53">>, <<"\\ud81b", "\\ude54">>,
     <<"\\ud81b", "\\ude55">>, <<"\\ud81b", "\\ude56">>, <<"\\ud81b", "\\ude57">>,
     <<"\\ud81b", "\\ude58">>, <<"\\ud81b", "\\ude59">>, <<"\\ud81b", "\\ude5a">>,
     <<"\\ud81b", "\\ude5b">>, <<"\\ud81b", "\\ude5c">>, <<"\\ud81b", "\\ude5d">>,
     <<"\\ud81b", "\\ude5e">>, <<"\\ud81b", "\\ude5f">>, <<"\\ud81b", "\\udea0">>,
     <<"\\ud81b", "\\udea1">>, <<"\\ud81b", "\\udea2">>, <<"\\ud81b", "\\udea3">>,
     <<"\\ud81b", "\\udea4">>, <<"\\ud81b", "\\udea5">>, <<"\\ud81b", "\\udea6">>,
     <<"\\ud81b", "\\udea7">>, <<"\\ud81b", "\\udea8">>, <<"\\ud81b", "\\udea9">>,
     <<"\\ud81b", "\\udeaa">>, <<"\\ud81b", "\\udeab">>, <<"\\ud81b", "\\udeac">>,
     <<"\\ud81b", "\\udead">>, <<"\\ud81b", "\\udeae">>, <<"\\ud81b", "\\udeaf">>,
     <<"\\ud81b", "\\udeb0">>, <<"\\ud81b", "\\udeb1">>, <<"\\ud81b", "\\udeb2">>,
     <<"\\ud81b", "\\udeb3">>, <<"\\ud81b", "\\udeb4">>, <<"\\ud81b", "\\udeb5">>,
     <<"\\ud81b", "\\udeb6">>, <<"\\ud81b", "\\udeb7">>, <<"\\ud81b", "\\udeb8">>,
     <<"\\ud83a", "\\udd00">>, <<"\\ud83a", "\\udd01">>, <<"\\ud83a", "\\udd02">>,
     <<"\\ud83a", "\\udd03">>, <<"\\ud83a", "\\udd04">>, <<"\\ud83a", "\\udd05">>,
     <<"\\ud83a", "\\udd06">>, <<"\\ud83a", "\\udd07">>, <<"\\ud83a", "\\udd08">>,
     <<"\\ud83a", "\\udd09">>, <<"\\ud83a", "\\udd0a">>, <<"\\ud83a", "\\udd0b">>,
     <<"\\ud83a", "\\udd0c">>, <<"\\ud83a", "\\udd0d">>, <<"\\ud83a", "\\udd0e">>,
     <<"\\ud83a", "\\udd0f">>, <<"\\ud83a", "\\udd10">>, <<"\\ud83a", "\\udd11">>,
     <<"\\ud83a", "\\udd12">>, <<"\\ud83a", "\\udd13">>, <<"\\ud83a", "\\udd14">>,
     <<"\\ud83a", "\\udd15">>, <<"\\ud83a", "\\udd16">>, <<"\\ud83a", "\\udd17">>,
     <<"\\ud83a", "\\udd18">>, <<"\\ud83a", "\\udd19">>, <<"\\ud83a", "\\udd1a">>,
     <<"\\ud83a", "\\udd1b">>, <<"\\ud83a", "\\udd1c">>, <<"\\ud83a", "\\udd1d">>,
     <<"\\ud83a", "\\udd1e">>, <<"\\ud83a", "\\udd1f">>, <<"\\ud83a", "\\udd20">>,
     <<"\\ud83a", "\\udd21">> >>

LowerChars ==
  <<
     <<"a">>, <<"b">>, <<"c">>, <<"d">>, <<"e">>, <<"f">>, <<"g">>, <<"h">>, <<"i">>, <<"j">>,
     <<"k">>, <<"l">>, <<"m">>, <<"n">>, <<"o">>, <<"p">>, <<"q">>, <<"r">>, <<"s">>, <<"t">>,
     <<"u">>, <<"v">>, <<"w">>, <<"x">>, <<"y">>, <<"z">>, <<"à">>, <<"á">>, <<"â">>, <<"ã">>,
     <<"ä">>, <<"å">>, <<"æ">>, <<"ç">>, <<"è">>, <<"é">>, <<"ê">>, <<"ë">>, <<"ì">>, <<"í">>,
     <<"î">>, <<"ï">>, <<"ð">>, <<"ñ">>, <<"ò">>, <<"ó">>, <<"ô">>, <<"õ">>, <<"ö">>, <<"ø">>,
     <<"ù">>, <<"ú">>, <<"û">>, <<"ü">>, <<"ý">>, <<"þ">>, <<"\\u0101">>, <<"\\u0103">>,
     <<"\\u0105">>, <<"\\u0107">>, <<"\\u0109">>, <<"\\u010b">>, <<"\\u010d">>, <<"\\u010f">>,
     <<"\\u0111">>, <<"\\u0113">>, <<"\\u0115">>, <<"\\u0117">>, <<"\\u0119">>, <<"\\u011b">>,
     <<"\\u011d">>, <<"\\u011f">>, <<"\\u0121">>, <<"\\u0123">>, <<"\\u0125">>, <<"\\u0127">>,
     <<"\\u0129">>, <<"\\u012b">>, <<"\\u012d">>, <<"\\u012f">>, <<"i", "\\u0307">>,
     <<"\\u0133">>, <<"\\u0135">>, <<"\\u0137">>, <<"\\u013a">>, <<"\\u013c">>, <<"\\u013e">>,
     <<"\\u0140">>, <<"\\u0142">>, <<"\\u0144">>, <<"\\u0146">>, <<"\\u0148">>, <<"\\u014b">>,
     <<"\\u014d">>, <<"\\u014f">>, <<"\\u0151">>, <<"\\u0153">>, <<"\\u0155">>, <<"\\u0157">>,
     <<"\\u0159">>, <<"\\u015b">>, <<"\\u015d">>, <<"\\u015f">>, <<"\\u0161">>, <<"\\u0163">>,
     <<"\\u0165">>, <<"\\u0167">>, <<"\\u0169">>, <<"\\u016b">>, <<"\\u016d">>, <<"\\u016f">>,
     <<"\\u0171">>, <<"\\u0173">>, <<"\\u0175">>, <<"\\u0177">>, <<"ÿ">>, <<"\\u017a">>,
     <<"\\u017c">>, <<"\\u017e">>, <<"\\u0253">>, <<"ƃ">>, <<"ƅ">>, <<"\\u0254">>, <<"ƈ">>,
     <<"\\u0256">>, <<"\\u0257">>, <<"ƌ">>, <<"ǝ">>, <<"\\u0259">>, <<"\\u025b">>, <<"ƒ">>,
     <<"\\u0260">>, <<"\\u0263">>, <<"\\u0269">>, <<"\\u0268">>, <<"ƙ">>, <<"\\u026f">>,
     <<"\\u0272">>, <<"\\u0275">>, <<"ơ">>, <<"ƣ">>, <<"ƥ">>, <<"ʀ">>, <<"ƨ">>, <<"ʃ">>, <<"ƭ">>,
     <<"ʈ">>, <<"ư">>, <<"ʊ">>, <<"ʋ">>, <<"ƴ">>, <<"ƶ">>, <<"ʒ">>, <<"ƹ">>, <<"ƽ">>, <<"ǆ">>,
     <<"ǆ">>, <<"ǉ">>, <<"ǉ">>, <<"ǌ">>, <<"ǌ">>, <<"ǎ">>, <<"ǐ">>, <<"ǒ">>, <<"ǔ">>, <<"ǖ">>,
     <<"ǘ">>, <<"ǚ">>, <<"ǜ">>, <<"ǟ">>, <<"ǡ">>, <<"ǣ">>, <<"ǥ">>, <<"ǧ">>, <<"ǩ">>, <<"ǫ">>,
     <<"ǭ">>, <<"ǯ">>, <<"ǳ">>, <<"ǳ">>, <<"ǵ">>, <<"ƕ">>, <<"ƿ">>, <<"ǹ">>, <<"ǻ">>, <<"ǽ">>,
     <<"ǿ">>, <<"\\u0201">>, <<"\\u0203">>, <<"\\u0205">>, <<"\\u0207">>, <<"\\u0209">>,
     <<"\\u020b">>, <<"\\u020d">>, <<"\\u020f">>, <<"\\u0211">>, <<"\\u0213">>, <<"\\u0215">>,
     <<"\\u0217">>, <<"\\u0219">>, <<"\\u021b">>, <<"\\u021d">>, <<"\\u021f">>, <<"ƞ">>,
     <<"\\u0223">>, <<"\\u0225">>, <<"\\u0227">>, <<"\\u0229">>, <<"\\u022b">>, <<"\\u022d">>,
     <<"\\u022f">>, <<"\\u0231">>, <<"\\u0233">>, <<"\\u2c65">>, <<"\\u023c">>, <<"ƚ">>,
     <<"\\u2c66">>, <<"\\u0242">>, <<"ƀ">>, <<"ʉ">>, <<"ʌ">>, <<"\\u0247">>, <<"\\u0249">>,
     <<"\\u024b">>, <<"\\u024d">>, <<"\\u024f">>, <<"\\u0371">>, <<"\\u0373">>, <<"\\u0377">>,
     <<"ϳ">>, <<"ά">>, <<"έ">>, <<"ή">>, <<"ί">>, <<"ό">>, <<"ύ">>, <<"ώ">>, <<"α">>, <<"β">>,
     <<"γ">>, <<"δ">>, <<"ε">>, <<"ζ">>, <<"η">>, <<"θ">>, <<"ι">>, <<"κ">>, <<"λ">>, <<"μ">>,
     <<"ν">>, <<"ξ">>, <<"ο">>, <<"π">>, <<"ρ">>, <<"σ">>, <<"τ">>, <<"υ">>, <<"φ">>, <<"χ">>,
     <<"ψ">>, <<"ω">>, <<"ϊ">>, <<"ϋ">>, <<"ϗ">>, <<"ϙ">>, <<"ϛ">>, <<"ϝ">>, <<"ϟ">>, <<"ϡ">>,
     <<"ϣ">>, <<"ϥ">>, <<"ϧ">>, <<"ϩ">>, <<"ϫ">>, <<"ϭ">>, <<"ϯ">>, <<"θ">>, <<"ϸ">>, <<"ϲ">>,
     <<"ϻ">>, <<"\\u037b">>, <<"\\u037c">>, <<"\\u037d">>, <<"\\u0450">>, <<"\\u0451">>,
     <<"\\u0452">>, <<"\\u0453">>, <<"\\u0454">>, <<"\\u0455">>, <<"\\u0456">>, <<"\\u0457">>,
     <<"\\u0458">>, <<"\\u0459">>, <<"\\u045a">>, <<"\\u045b">>, <<"\\u045c">>, <<"\\u045d">>,
     <<"\\u045e">>, <<"\\u045f">>, <<"\\u0430">>, <<"\\u0431">>, <<"\\u0432">>, <<"\\u0433">>,
     <<"\\u0434">>, <<"\\u0435">>, <<"\\u0436">>, <<"\\u0437">>, <<"\\u0438">>, <<"\\u0439">>,
     <<"\\u043a">>, <<"\\u043b">>, <<"\\u043c">>, <<"\\u043d">>, <<"\\u043e">>, <<"\\u043f">>,
     <<"\\u0440">>, <<"\\u0441">>, <<"\\u0442">>, <<"\\u0443">>, <<"\\u0444">>, <<"\\u0445">>,
     <<"\\u0446">>, <<"\\u0447">>, <<"\\u0448">>, <<"\\u0449">>, <<"\\u044a">>, <<"\\u044b">>,
     <<"\\u044c">>, <<"\\u044d">>, <<"\\u044e">>, <<"\\u044f">>, <<"\\u0461">>, <<"\\u0463">>,
     <<"\\u0465">>, <<"\\u0467">>, <<"\\u0469">>, <<"\\u046b">>, <<"\\u046d">>, <<"\\u046f">>,
     <<"\\u0471">>, <<"\\u0473">>, <<"\\u0475">>, <<"\\u0477">>, <<"\\u0479">>, <<"\\u047b">>,
     <<"\\u047d">>, <<"\\u047f">>, <<"ҁ">>, <<"ҋ">>, <<"ҍ">>, <<"ҏ">>, <<"ґ">>, <<"ғ">>, <<"ҕ">>,
     <<"җ">>, <<"ҙ">>, <<"қ">>, <<"ҝ">>, <<"ҟ">>, <<"ҡ">>, <<"ң">>, <<"ҥ">>, <<"ҧ">>, <<"ҩ">>,
     <<"ҫ">>, <<"ҭ">>, <<"ү">>, <<"ұ">>, <<"ҳ">>, <<"ҵ">>, <<"ҷ">>, <<"ҹ">>, <<"һ">>, <<"ҽ">>,
     <<"ҿ">>, <<"ӏ">>, <<"ӂ">>, <<"ӄ">>, <<"ӆ">>, <<"ӈ">>, <<"ӊ">>, <<"ӌ">>, <<"ӎ">>, <<"ӑ">>,
     <<"ӓ">>, <<"ӕ">>, <<"ӗ">>, <<"ә">>, <<"ӛ">>, <<"ӝ">>, <<"ӟ">>, <<"ӡ">>, <<"ӣ">>, <<"ӥ">>,
     <<"ӧ">>, <<"ө">>, <<"ӫ">>, <<"ӭ">>, <<"ӯ">>, <<"ӱ">>, <<"ӳ">>, <<"ӵ">>, <<"ӷ">>, <<"ӹ">>,
     <<"ӻ">>, <<"ӽ">>, <<"ӿ">>, <<"\\u0501">>, <<"\\u0503">>, <<"\\u0505">>, <<"\\u0507">>,
     <<"\\u0509">>, <<"\\u050b">>, <<"\\u050d">>, <<"\\u050f">>, <<"\\u0511">>, <<"\\u0513">>,
     <<"\\u0515">>, <<"\\u0517">>, <<"\\u0519">>, <<"\\u051b">>, <<"\\u051d">>, <<"\\u051f">>,
     <<"\\u0521">>, <<"\\u0523">>, <<"\\u0525">>, <<"\\u0527">>, <<"\\u0529">>, <<"\\u052b">>,
     <<"\\u052d">>, <<"\\u052f">>, <<"\\u0561">>, <<"\\u0562">>, <<"\\u0563">>, <<"\\u0564">>,
     <<"\\u0565">>, <<"\\u0566">>, <<"\\u0567">>, <<"\\u0568">>, <<"\\u0569">>, <<"\\u056a">>,
     <<"\\u056b">>, <<"\\u056c">>, <<"\\u056d">>, <<"\\u056e">>, <<"\\u056f">>, <<"\\u0570">>,
     <<"\\u0571">>, <<"\\u0572">>, <<"\\u0573">>, <<"\\u0574">>, <<"\\u0575">>, <<"\\u0576">>,
     <<"\\u0577">>, <<"\\u0578">>, <<"\\u0579">>, <<"\\u057a">>, <<"\\u057b">>, <<"\\u057c">>,
     <<"\\u057d">>, <<"\\u057e">>, <<"\\u057f">>, <<"ր">>, <<"ց">>, <<"ւ">>, <<"փ">>, <<"ք">>,
     <<"օ">>, <<"ֆ">>, <<"\\u2d00">>, <<"\\u2d01">>, <<"\\u2d02">>, <<"\\u2d03">>, <<"\\u2d04">>,
     <<"\\u2d05">>, <<"\\u2d06">>, <<"\\u2d07">>, <<"\\u2d08">>, <<"\\u2d09">>, <<"\\u2d0a">>,
     <<"\\u2d0b">>, <<"\\u2d0c">>, <<"\\u2d0d">>, <<"\\u2d0e">>, <<"\\u2d0f">>, <<"\\u2d10">>,
     <<"\\u2d11">>, <<"\\u2d12">>, <<"\\u2d13">>, <<"\\u2d14">>, <<"\\u2d15">>, <<"\\u2d16">>,
     <<"\\u2d17">>, <<"\\u2d18">>, <<"\\u2d19">>, <<"\\u2d1a">>, <<"\\u2d1b">>, <<"\\u2d1c">>,
     <<"\\u2d1d">>, <<"\\u2d1e">>, <<"\\u2d1f">>, <<"\\u2d20">>, <<"\\u2d21">>, <<"\\u2d22">>,
     <<"\\u2d23">>, <<"\\u2d24">>, <<"\\u2d25">>, <<"\\u2d27">>, <<"\\u2d2d">>, <<"\\uab70">>,
     <<"\\uab71">>, <<"\\uab72">>, <<"\\uab73">>, <<"\\uab74">>, <<"\\uab75">>, <<"\\uab76">>,
     <<"\\uab77">>, <<"\\uab78">>, <<"\\uab79">>, <<"\\uab7a">>, <<"\\uab7b">>, <<"\\uab7c">>,
     <<"\\uab7d">>, <<"\\uab7e">>, <<"\\uab7f">>, <<"ꮀ">>, <<"ꮁ">>, <<"ꮂ">>, <<"ꮃ">>, <<"ꮄ">>,
     <<"ꮅ">>, <<"ꮆ">>, <<"ꮇ">>, <<"ꮈ">>, <<"ꮉ">>, <<"ꮊ">>, <<"ꮋ">>, <<"ꮌ">>, <<"ꮍ">>, <<"ꮎ">>,
     <<"ꮏ">>, <<"ꮐ">>, <<"ꮑ">>, <<"ꮒ">>, <<"ꮓ">>, <<"ꮔ">>, <<"ꮕ">>, <<"ꮖ">>, <<"ꮗ">>, <<"ꮘ">>,
     <<"ꮙ">>, <<"ꮚ">>, <<"ꮛ">>, <<"ꮜ">>, <<"ꮝ">>, <<"ꮞ">>, <<"ꮟ">>, <<"ꮠ">>, <<"ꮡ">>, <<"ꮢ">>,
     <<"ꮣ">>, <<"ꮤ">>, <<"ꮥ">>, <<"ꮦ">>, <<"ꮧ">>, <<"ꮨ">>, <<"ꮩ">>, <<"ꮪ">>, <<"ꮫ">>, <<"ꮬ">>,
     <<"ꮭ">>, <<"ꮮ">>, <<"ꮯ">>, <<"ꮰ">>, <<"ꮱ">>, <<"ꮲ">>, <<"ꮳ">>, <<"ꮴ">>, <<"ꮵ">>, <<"ꮶ">>,
     <<"ꮷ">>, <<"ꮸ">>, <<"ꮹ">>, <<"ꮺ">>, <<"ꮻ">>, <<"ꮼ">>, <<"ꮽ">>, <<"ꮾ">>, <<"ꮿ">>, <<"ᏸ">>,
     <<"ᏹ">>, <<"ᏺ">>, <<"ᏻ">>, <<"ᏼ">>, <<"ᏽ">>, <<"ᲊ">>, <<"ა">>, <<"ბ">>, <<"გ">>, <<"დ">>,
     <<"ე">>, <<"ვ">>, <<"ზ">>, <<"თ">>, <<"ი">>, <<"კ">>, <<"ლ">>, <<"მ">>, <<"ნ">>, <<"ო">>,
     <<"პ">>, <<"ჟ">>, <<"რ">>, <<"ს">>, <<"ტ">>, <<"უ">>, <<"ფ">>, <<"ქ">>, <<"ღ">>, <<"ყ">>,
     <<"შ">>, <<"ჩ">>, <<"ც">>, <<"ძ">>, <<"წ">>, <<"ჭ">>, <<"ხ">>, <<"ჯ">>, <<"ჰ">>, <<"ჱ">>,
     <<"ჲ">>, <<"ჳ">>, <<"ჴ">>, <<"ჵ">>, <<"ჶ">>, <<"ჷ">>, <<"ჸ">>, <<"ჹ">>, <<"ჺ">>, <<"ჽ">>,
     <<"ჾ">>, <<"ჿ">>, <<"\\u1e01">>, <<"\\u1e03">>, <<"\\u1e05">>, <<"\\u1e07">>, <<"\\u1e09">>,
     <<"\\u1e0b">>, <<"\\u1e0d">>, <<"\\u1e0f">>, <<"\\u1e11">>, <<"\\u1e13">>, <<"\\u1e15">>,
     <<"\\u1e17">>, <<"\\u1e19">>, <<"\\u1e1b">>, <<"\\u1e1d">>, <<"\\u1e1f">>, <<"\\u1e21">>,
     <<"\\u1e23">>, <<"\\u1e25">>, <<"\\u1e27">>, <<"\\u1e29">>, <<"\\u1e2b">>, <<"\\u1e2d">>,
     <<"\\u1e2f">>, <<"\\u1e31">>, <<"\\u1e33">>, <<"\\u1e35">>, <<"\\u1e37">>, <<"\\u1e39">>,
     <<"\\u1e3b">>, <<"\\u1e3d">>, <<"\\u1e3f">>, <<"\\u1e41">>, <<"\\u1e43">>, <<"\\u1e45">>,
     <<"\\u1e47">>, <<"\\u1e49">>, <<"\\u1e4b">>, <<"\\u1e4d">>, <<"\\u1e4f">>, <<"\\u1e51">>,
     <<"\\u1e53">>, <<"\\u1e55">>, <<"\\u1e57">>, <<"\\u1e59">>, <<"\\u1e5b">>, <<"\\u1e5d">>,
     <<"\\u1e5f">>, <<"\\u1e61">>, <<"\\u1e63">>, <<"\\u1e65">>, <<"\\u1e67">>, <<"\\u1e69">>,
     <<"\\u1e6b">>, <<"\\u1e6d">>, <<"\\u1e6f">>, <<"\\u1e71">>, <<"\\u1e73">>, <<"\\u1e75">>,
     <<"\\u1e77">>, <<"\\u1e79">>, <<"\\u1e7b">>, <<"\\u1e7d">>, <<"\\u1e7f">>, <<"ẁ">>, <<"ẃ">>,
     <<"ẅ">>, <<"ẇ">>, <<"ẉ">>, <<"ẋ">>, <<"ẍ">>, <<"ẏ">>, <<"ẑ">>, <<"ẓ">>, <<"ẕ">>, <<"ß">>,
     <<"ạ">>, <<"ả">>, <<"ấ">>, <<"ầ">>, <<"ẩ">>, <<"ẫ">>, <<"ậ">>, <<"ắ">>, <<"ằ">>, <<"ẳ">>,
     <<"ẵ">>, <<"ặ">>, <<"ẹ">>, <<"ẻ">>, <<"ẽ">>, <<"ế">>, <<"ề">>, <<"ể">>, <<"ễ">>, <<"ệ">>,
     <<"ỉ">>, <<"ị">>, <<"ọ">>, <<"ỏ">>, <<"ố">>, <<"ồ">>, <<"ổ">>, <<"ỗ">>, <<"ộ">>, <<"ớ">>,
     <<"ờ">>, <<"ở">>, <<"ỡ">>, <<"ợ">>, <<"ụ">>, <<"ủ">>, <<"ứ">>, <<"ừ">>, <<"ử">>, <<"ữ">>,
     <<"ự">>, <<"ỳ">>, <<"ỵ">>, <<"ỷ">>, <<"ỹ">>, <<"ỻ">>, <<"ỽ">>, <<"ỿ">>, <<"\\u1f00">>,
     <<"\\u1f01">>, <<"\\u1f02">>, <<"\\u1f03">>, <<"\\u1f04">>, <<"\\u1f05">>, <<"\\u1f06">>,
     <<"\\u1f07">>, <<"\\u1f10">>, <<"\\u1f11">>, <<"\\u1f12">>, <<"\\u1f13">>, <<"\\u1f14">>,
     <<"\\u1f15">>, <<"\\u1f20">>, <<"\\u1f21">>, <<"\\u1f22">>, <<"\\u1f23">>, <<"\\u1f24">>,
     <<"\\u1f25">>, <<"\\u1f26">>, <<"\\u1f27">>, <<"\\u1f30">>, <<"\\u1f31">>, <<"\\u1f32">>,
     <<"\\u1f33">>, <<"\\u1f34">>, <<"\\u1f35">>, <<"\\u1f36">>, <<"\\u1f37">>, <<"\\u1f40">>,
     <<"\\u1f41">>, <<"\\u1f42">>, <<"\\u1f43">>, <<"\\u1f44">>, <<"\\u1f45">>, <<"\\u1f51">>,
     <<"\\u1f53">>, <<"\\u1f55">>, <<"\\u1f57">>, <<"\\u1f60">>, <<"\\u1f61">>, <<"\\u1f62">>,
     <<"\\u1f63">>, <<"\\u1f64">>, <<"\\u1f65">>, <<"\\u1f66">>, <<"\\u1f67">>, <<"ᾀ">>, <<"ᾁ">>,
     <<"ᾂ">>, <<"ᾃ">>, <<"ᾄ">>, <<"ᾅ">>, <<"ᾆ">>, <<"ᾇ">>, <<"ᾐ">>, <<"ᾑ">>, <<"ᾒ">>, <<"ᾓ">>,
     <<"ᾔ">>, <<"ᾕ">>, <<"ᾖ">>, <<"ᾗ">>, <<"ᾠ">>, <<"ᾡ">>, <<"ᾢ">>, <<"ᾣ">>, <<"ᾤ">>, <<"ᾥ">>,
     <<"ᾦ">>, <<"ᾧ">>, <<"ᾰ">>, <<"ᾱ">>, <<"\\u1f70">>, <<"\\u1f71">>, <<"ᾳ">>, <<"\\u1f72">>,
     <<"\\u1f73">>, <<"\\u1f74">>, <<"\\u1f75">>, <<"ῃ">>, <<"ῐ">>, <<"ῑ">>, <<"\\u1f76">>,
     <<"\\u1f77">>, <<"ῠ">>, <<"ῡ">>, <<"\\u1f7a">>, <<"\\u1f7b">>, <<"ῥ">>, <<"\\u1f78">>,
     <<"\\u1f79">>, <<"\\u1f7c">>, <<"\\u1f7d">>, <<"ῳ">>, <<"ω">>, <<"k">>, <<"å">>,
     <<"\\u214e">>, <<"\\u2170">>, <<"\\u2171">>, <<"\\u2172">>, <<"\\u2173">>, <<"\\u2174">>,
     <<"\\u2175">>, <<"\\u2176">>, <<"\\u2177">>, <<"\\u2178">>, <<"\\u2179">>, <<"\\u217a">>,
     <<"\\u217b">>, <<"\\u217c">>, <<"\\u217d">>, <<"\\u217e">>, <<"\\u217f">>, <<"ↄ">>, <<"ⓐ">>,
     <<"ⓑ">>, <<"ⓒ">>, <<"ⓓ">>, <<"ⓔ">>, <<"ⓕ">>, <<"ⓖ">>, <<"ⓗ">>, <<"ⓘ">>, <<"ⓙ">>, <<"ⓚ">>,
     <<"ⓛ">>, <<"ⓜ">>, <<"ⓝ">>, <<"ⓞ">>, <<"ⓟ">>, <<"ⓠ">>, <<"ⓡ">>, <<"ⓢ">>, <<"ⓣ">>, <<"ⓤ">>,
     <<"ⓥ">>, <<"ⓦ">>, <<"ⓧ">>, <<"ⓨ">>, <<"ⓩ">>, <<"\\u2c30">>, <<"\\u2c31">>, <<"\\u2c32">>,
     <<"\\u2c33">>, <<"\\u2c34">>, <<"\\u2c35">>, <<"\\u2c36">>, <<"\\u2c37">>, <<"\\u2c38">>,
     <<"\\u2c39">>, <<"\\u2c3a">>, <<"\\u2c3b">>, <<"\\u2c3c">>, <<"\\u2c3d">>, <<"\\u2c3e">>,
     <<"\\u2c3f">>, <<"\\u2c40">>, <<"\\u2c41">>, <<"\\u2c42">>, <<"\\u2c43">>, <<"\\u2c44">>,
     <<"\\u2c45">>, <<"\\u2c46">>, <<"\\u2c47">>, <<"\\u2c48">>, <<"\\u2c49">>, <<"\\u2c4a">>,
     <<"\\u2c4b">>, <<"\\u2c4c">>, <<"\\u2c4d">>, <<"\\u2c4e">>, <<"\\u2c4f">>, <<"\\u2c50">>,
     <<"\\u2c51">>, <<"\\u2c52">>, <<"\\u2c53">>, <<"\\u2c54">>, <<"\\u2c55">>, <<"\\u2c56">>,
     <<"\\u2c57">>, <<"\\u2c58">>, <<"\\u2c59">>, <<"\\u2c5a">>, <<"\\u2c5b">>, <<"\\u2c5c">>,
     <<"\\u2c5d">>, <<"\\u2c5e">>, <<"\\u2c5f">>, <<"\\u2c61">>, <<"\\u026b">>, <<"\\u1d7d">>,
     <<"\\u027d">>, <<"\\u2c68">>, <<"\\u2c6a">>, <<"\\u2c6c">>, <<"\\u0251">>, <<"\\u0271">>,
     <<"\\u0250">>, <<"\\u0252">>, <<"\\u2c73">>, <<"\\u2c76">>, <<"\\u023f">>, <<"\\u0240">>,
     <<"ⲁ">>, <<"ⲃ">>, <<"ⲅ">>, <<"ⲇ">>, <<"ⲉ">>, <<"ⲋ">>, <<"ⲍ">>, <<"ⲏ">>, <<"ⲑ">>, <<"ⲓ">>,
     <<"ⲕ">>, <<"ⲗ">>, <<"ⲙ">>, <<"ⲛ">>, <<"ⲝ">>, <<"ⲟ">>, <<"ⲡ">>, <<"ⲣ">>, <<"ⲥ">>, <<"ⲧ">>,
     <<"ⲩ">>, <<"ⲫ">>, <<"ⲭ">>, <<"ⲯ">>, <<"ⲱ">>, <<"ⲳ">>, <<"ⲵ">>, <<"ⲷ">>, <<"ⲹ">>, <<"ⲻ">>,
     <<"ⲽ">>, <<"ⲿ">>, <<"ⳁ">>, <<"ⳃ">>, <<"ⳅ">>, <<"ⳇ">>, <<"ⳉ">>, <<"ⳋ">>, <<"ⳍ">>, <<"ⳏ">>,
     <<"ⳑ">>, <<"ⳓ">>, <<"ⳕ">>, <<"ⳗ">>, <<"ⳙ">>, <<"ⳛ">>, <<"ⳝ">>, <<"ⳟ">>, <<"ⳡ">>, <<"ⳣ">>,
     <<"ⳬ">>, <<"ⳮ">>, <<"ⳳ">>, <<"\\ua641">>, <<"\\ua643">>, <<"\\ua645">>, <<"\\ua647">>,
     <<"\\ua649">>, <<"\\ua64b">>, <<"\\ua64d">>, <<"\\ua64f">>, <<"\\ua651">>, <<"\\ua653">>,
     <<"\\ua655">>, <<"\\ua657">>, <<"\\ua659">>, <<"\\ua65b">>, <<"\\ua65d">>, <<"\\ua65f">>,
     <<"\\ua661">>, <<"\\ua663">>, <<"\\ua665">>, <<"\\ua667">>, <<"\\ua669">>, <<"\\ua66b">>,
     <<"\\ua66d">>, <<"ꚁ">>, <<"ꚃ">>, <<"ꚅ">>, <<"ꚇ">>, <<"ꚉ">>, <<"ꚋ">>, <<"ꚍ">>, <<"ꚏ">>,
     <<"ꚑ">>, <<"ꚓ">>, <<"ꚕ">>, <<"ꚗ">>, <<"ꚙ">>, <<"ꚛ">>, <<"\\ua723">>, <<"\\ua725">>,
     <<"\\ua727">>, <<"\\ua729">>, <<"\\ua72b">>, <<"\\ua72d">>, <<"\\ua72f">>, <<"\\ua733">>,
     <<"\\ua735">>, <<"\\ua737">>, <<"\\ua739">>, <<"\\ua73b">>, <<"\\ua73d">>, <<"\\ua73f">>,
     <<"\\ua741">>, <<"\\ua743">>, <<"\\ua745">>, <<"\\ua747">>, <<"\\ua749">>, <<"\\ua74b">>,
     <<"\\ua74d">>, <<"\\ua74f">>, <<"\\ua751">>, <<"\\ua753">>, <<"\\ua755">>, <<"\\ua757">>,
     <<"\\ua759">>, <<"\\ua75b">>, <<"\\ua75d">>, <<"\\ua75f">>, <<"\\ua761">>, <<"\\ua763">>,
     <<"\\ua765">>, <<"\\ua767">>, <<"\\ua769">>, <<"\\ua76b">>, <<"\\ua76d">>, <<"\\ua76f">>,
     <<"\\ua77a">>, <<"\\ua77c">>, <<"\\u1d79">>, <<"\\ua77f">>, <<"ꞁ">>, <<"ꞃ">>, <<"ꞅ">>,
     <<"ꞇ">>, <<"ꞌ">>, <<"\\u0265">>, <<"ꞑ">>, <<"ꞓ">>, <<"ꞗ">>, <<"ꞙ">>, <<"ꞛ">>, <<"ꞝ">>,
     <<"ꞟ">>, <<"ꞡ">>, <<"ꞣ">>, <<"ꞥ">>, <<"ꞧ">>, <<"ꞩ">>, <<"\\u0266">>, <<"\\u025c">>,
     <<"\\u0261">>, <<"\\u026c">>, <<"\\u026a">>, <<"ʞ">>, <<"ʇ">>, <<"ʝ">>, <<"\\uab53">>,
     <<"ꞵ">>, <<"ꞷ">>, <<"ꞹ">>, <<"ꞻ">>, <<"ꞽ">>, <<"ꞿ">>, <<"ꟁ">>, <<"ꟃ">>, <<"ꞔ">>, <<"ʂ">>,
     <<"ᶎ">>, <<"ꟈ">>, <<"ꟊ">>, <<"\\u0264">>, <<"ꟍ">>, <<"꟏">>, <<"ꟑ">>, <<"ꟓ">>, <<"ꟕ">>,
     <<"ꟗ">>, <<"ꟙ">>, <<"ꟛ">>, <<"ƛ">>, <<"ꟶ">>, <<"\\uff41">>, <<"\\uff42">>, <<"\\uff43">>,
     <<"\\uff44">>, <<"\\uff45">>, <<"\\uff46">>, <<"\\uff47">>, <<"\\uff48">>, <<"\\uff49">>,
     <<"\\uff4a">>, <<"\\uff4b">>, <<"\\uff4c">>, <<"\\uff4d">>, <<"\\uff4e">>, <<"\\uff4f">>,
     <<"\\uff50">>, <<"\\uff51">>, <<"\\uff52">>, <<"\\uff53">>, <<"\\uff54">>, <<"\\uff55">>,
     <<"\\uff56">>, <<"\\uff57">>, <<"\\uff58">>, <<"\\uff59">>, <<"\\uff5a">>,
     <<"\\ud801", "\\udc28">>, <<"\\ud801", "\\udc29">>, <<"\\ud801", "\\udc2a">>,
     <<"\\ud801", "\\udc2b">>, <<"\\ud801", "\\udc2c">>, <<"\\ud801", "\\udc2d">>,
     <<"\\ud801", "\\udc2e">>, <<"\\ud801", "\\udc2f">>, <<"\\ud801", "\\udc30">>,
     <<"\\ud801", "\\udc31">>, <<"\\ud801", "\\udc32">>, <<"\\ud801", "\\udc33">>,
     <<"\\ud801", "\\udc34">>, <<"\\ud801", "\\udc35">>, <<"\\ud801", "\\udc36">>,
     <<"\\ud801", "\\udc37">>, <<"\\ud801", "\\udc38">>, <<"\\ud801", "\\udc39">>,
     <<"\\ud801", "\\udc3a">>, <<"\\ud801", "\\udc3b">>, <<"\\ud801", "\\udc3c">>,
     <<"\\ud801", "\\udc3d">>, <<"\\ud801", "\\udc3e">>, <<"\\ud801", "\\udc3f">>,
     <<"\\ud801", "\\udc40">>, <<"\\ud801", "\\udc41">>, <<"\\ud801", "\\udc42">>,
     <<"\\ud801", "\\udc43">>, <<"\\ud801", "\\udc44">>, <<"\\ud801", "\\udc45">>,
     <<"\\ud801", "\\udc46">>, <<"\\ud801", "\\udc47">>, <<"\\ud801", "\\udc48">>,
     <<"\\ud801", "\\udc49">>, <<"\\ud801", "\\udc4a">>, <<"\\ud801", "\\udc4b">>,
     <<"\\ud801", "\\udc4c">>, <<"\\ud801", "\\udc4d">>, <<"\\ud801", "\\udc4e">>,
     <<"\\ud801", "\\udc4f">>, <<"\\ud801", "\\udcd8">>, <<"\\ud801", "\\udcd9">>,
     <<"\\ud801", "\\udcda">>, <<"\\ud801", "\\udcdb">>, <<"\\ud801", "\\udcdc">>,
     <<"\\ud801", "\\udcdd">>, <<"\\ud801", "\\udcde">>, <<"\\ud801", "\\udcdf">>,
     <<"\\ud801", "\\udce0">>, <<"\\ud801", "\\udce1">>, <<"\\ud801", "\\udce2">>,
     <<"\\ud801", "\\udce3">>, <<"\\ud801", "\\udce4">>, <<"\\ud801", "\\udce5">>,
     <<"\\ud801", "\\udce6">>, <<"\\ud801", "\\udce7">>, <<"\\ud801", "\\udce8">>,
     <<"\\ud801", "\\udce9">>, <<"\\ud801", "\\udcea">>, <<"\\ud801", "\\udceb">>,
     <<"\\ud801", "\\udcec">>, <<"\\ud801", "\\udced">>, <<"\\ud801", "\\udcee">>,
     <<"\\ud801", "\\udcef">>, <<"\\ud801", "\\udcf0">>, <<"\\ud801", "\\udcf1">>,
     <<"\\ud801", "\\udcf2">>, <<"\\ud801", "\\udcf3">>, <<"\\ud801", "\\udcf4">>,
     <<"\\ud801", "\\udcf5">>, <<"\\ud801", "\\udcf6">>, <<"\\ud801", "\\udcf7">>,
     <<"\\ud801", "\\udcf8">>, <<"\\ud801", "\\udcf9">>, <<"\\ud801", "\\udcfa">>,
     <<"\\ud801", "\\udcfb">>, <<"\\ud801", "\\udd97">>, <<"\\ud801", "\\udd98">>,
     <<"\\ud801", "\\udd99">>, <<"\\ud801", "\\udd9a">>, <<"\\ud801", "\\udd9b">>,
     <<"\\ud801", "\\udd9c">>, <<"\\ud801", "\\udd9d">>, <<"\\ud801", "\\udd9e">>,
     <<"\\ud801", "\\udd9f">>, <<"\\ud801", "\\udda0">>, <<"\\ud801", "\\udda1">>,
     <<"\\ud801", "\\udda3">>, <<"\\ud801", "\\udda4">>, <<"\\ud801", "\\udda5">>,
     <<"\\ud801", "\\udda6">>, <<"\\ud801", "\\udda7">>, <<"\\ud801", "\\udda8">>,
     <<"\\ud801", "\\udda9">>, <<"\\ud801", "\\uddaa">>, <<"\\ud801", "\\uddab">>,
     <<"\\ud801", "\\uddac">>, <<"\\ud801", "\\uddad">>, <<"\\ud801", "\\uddae">>,
     <<"\\ud801", "\\uddaf">>, <<"\\ud801", "\\uddb0">>, <<"\\ud801", "\\uddb1">>,
     <<"\\ud801", "\\uddb3">>, <<"\\ud801", "\\uddb4">>, <<"\\ud801", "\\uddb5">>,
     <<"\\ud801", "\\uddb6">>, <<"\\ud801", "\\uddb7">>, <<"\\ud801", "\\uddb8">>,
     <<"\\ud801", "\\uddb9">>, <<"\\ud801", "\\uddbb">>, <<"\\ud801", "\\uddbc">>,
     <<"\\ud803", "\\udcc0">>, <<"\\ud803", "\\udcc1">>, <<"\\ud803", "\\udcc2">>,
     <<"\\ud803", "\\udcc3">>, <<"\\ud803", "\\udcc4">>, <<"\\ud803", "\\udcc5">>,
     <<"\\ud803", "\\udcc6">>, <<"\\ud803", "\\udcc7">>, <<"\\ud803", "\\udcc8">>,
     <<"\\ud803", "\\udcc9">>, <<"\\ud803", "\\udcca">>, <<"\\ud803", "\\udccb">>,
     <<"\\ud803", "\\udccc">>, <<"\\ud803", "\\udccd">>, <<"\\ud803", "\\udcce">>,
     <<"\\ud803", "\\udccf">>, <<"\\ud803", "\\udcd0">>, <<"\\ud803", "\\udcd1">>,
     <<"\\ud803", "\\udcd2">>, <<"\\ud803", "\\udcd3">>, <<"\\ud803", "\\udcd4">>,
     <<"\\ud803", "\\udcd5">>, <<"\\ud803", "\\udcd6">>, <<"\\ud803", "\\udcd7">>,
     <<"\\ud803", "\\udcd8">>, <<"\\ud803", "\\udcd9">>, <<"\\ud803", "\\udcda">>,
     <<"\\ud803", "\\udcdb">>, <<"\\ud803", "\\udcdc">>, <<"\\ud803", "\\udcdd">>,
     <<"\\ud803", "\\udcde">>, <<"\\ud803", "\\udcdf">>, <<"\\ud803", "\\udce0">>,
     <<"\\ud803", "\\udce1">>, <<"\\ud803", "\\udce2">>, <<"\\ud803", "\\udce3">>,
     <<"\\ud803", "\\udce4">>, <<"\\ud803", "\\udce5">>, <<"\\ud803", "\\udce6">>,
     <<"\\ud803", "\\udce7">>, <<"\\ud803", "\\udce8">>, <<"\\ud803", "\\udce9">>,
     <<"\\ud803", "\\udcea">>, <<"\\ud803", "\\udceb">>, <<"\\ud803", "\\udcec">>,
     <<"\\ud803", "\\udced">>, <<"\\ud803", "\\udcee">>, <<"\\ud803", "\\udcef">>,
     <<"\\ud803", "\\udcf0">>, <<"\\ud803", "\\udcf1">>, <<"\\ud803", "\\udcf2">>,
     <<"\\ud803", "\\udd70">>, <<"\\ud803", "\\udd71">>, <<"\\ud803", "\\udd72">>,
     <<"\\ud803", "\\udd73">>, <<"\\ud803", "\\udd74">>, <<"\\ud803", "\\udd75">>,
     <<"\\ud803", "\\udd76">>, <<"\\ud803", "\\udd77">>, <<"\\ud803", "\\udd78">>,
     <<"\\ud803", "\\udd79">>, <<"\\ud803", "\\udd7a">>, <<"\\ud803", "\\udd7b">>,
     <<"\\ud803", "\\udd7c">>, <<"\\ud803", "\\udd7d">>, <<"\\ud803", "\\udd7e">>,
     <<"\\ud803", "\\udd7f">>, <<"\\ud803", "\\udd80">>, <<"\\ud803", "\\udd81">>,
     <<"\\ud803", "\\udd82">>, <<"\\ud803", "\\udd83">>, <<"\\ud803", "\\udd84">>,
     <<"\\ud803", "\\udd85">>, <<"\\ud806", "\\udcc0">>, <<"\\ud806", "\\udcc1">>,
     <<"\\ud806", "\\udcc2">>, <<"\\ud806", "\\udcc3">>, <<"\\ud806", "\\udcc4">>,
     <<"\\ud806", "\\udcc5">>, <<"\\ud806", "\\udcc6">>, <<"\\ud806", "\\udcc7">>,
     <<"\\ud806", "\\udcc8">>, <<"\\ud806", "\\udcc9">>, <<"\\ud806", "\\udcca">>,
     <<"\\ud806", "\\udccb">>, <<"\\ud806", "\\udccc">>, <<"\\ud806", "\\udccd">>,
     <<"\\ud806", "\\udcce">>, <<"\\ud806", "\\udccf">>, <<"\\ud806", "\\udcd0">>,
     <<"\\ud806", "\\udcd1">>, <<"\\ud806", "\\udcd2">>, <<"\\ud806", "\\udcd3">>,
     <<"\\ud806", "\\udcd4">>, <<"\\ud806", "\\udcd5">>, <<"\\ud806", "\\udcd6">>,
     <<"\\ud806", "\\udcd7">>, <<"\\ud806", "\\udcd8">>, <<"\\ud806", "\\udcd9">>,
     <<"\\ud806", "\\udcda">>, <<"\\ud806", "\\udcdb">>, <<"\\ud806", "\\udcdc">>,
     <<"\\ud806", "\\udcdd">>, <<"\\ud806", "\\udcde">>, <<"\\ud806", "\\udcdf">>,
     <<"\\ud81b", "\\ude60">>, <<"\\ud81b", "\\ude61">>, <<"\\ud81b", "\\ude62">>,
     <<"\\ud81b", "\\ude63">>, <<"\\ud81b", "\\ude64">>, <<"\\ud81b", "\\ude65">>,
     <<"\\ud81b", "\\ude66">>, <<"\\ud81b", "\\ude67">>, <<"\\ud81b", "\\ude68">>,
     <<"\\ud81b", "\\ude69">>, <<"\\ud81b", "\\ude6a">>, <<"\\ud81b", "\\ude6b">>,
     <<"\\ud81b", "\\ude6c">>, <<"\\ud81b", "\\ude6d">>, <<"\\ud81b", "\\ude6e">>,
     <<"\\ud81b", "\\ude6f">>, <<"\\ud81b", "\\ude70">>, <<"\\ud81b", "\\ude71">>,
     <<"\\ud81b", "\\ude72">>, <<"\\ud81b", "\\ude73">>, <<"\\ud81b", "\\ude74">>,
     <<"\\ud81b", "\\ude75">>, <<"\\ud81b", "\\ude76">>, <<"\\ud81b", "\\ude77">>,
     <<"\\ud81b", "\\ude78">>, <<"\\ud81b", "\\ude79">>, <<"\\ud81b", "\\ude7a">>,
     <<"\\ud81b", "\\ude7b">>, <<"\\ud81b", "\\ude7c">>, <<"\\ud81b", "\\ude7d">>,
     <<"\\ud81b", "\\ude7e">>, <<"\\ud81b", "\\ude7f">>, <<"\\ud81b", "\\udebb">>,
     <<"\\ud81b", "\\udebc">>, <<"\\ud81b", "\\udebd">>, <<"\\ud81b", "\\udebe">>,
     <<"\\ud81b", "\\udebf">>, <<"\\ud81b", "\\udec0">>, <<"\\ud81b", "\\udec1">>,
     <<"\\ud81b", "\\udec2">>, <<"\\ud81b", "\\udec3">>, <<"\\ud81b", "\\udec4">>,
     <<"\\ud81b", "\\udec5">>, <<"\\ud81b", "\\udec6">>, <<"\\ud81b", "\\udec7">>,
     <<"\\ud81b", "\\udec8">>, <<"\\ud81b", "\\udec9">>, <<"\\ud81b", "\\udeca">>,
     <<"\\ud81b", "\\udecb">>, <<"\\ud81b", "\\udecc">>, <<"\\ud81b", "\\udecd">>,
     <<"\\ud81b", "\\udece">>, <<"\\ud81b", "\\udecf">>, <<"\\ud81b", "\\uded0">>,
     <<"\\ud81b", "\\uded1">>, <<"\\ud81b", "\\uded2">>, <<"\\ud81b", "\\uded3">>,
     <<"\\ud83a", "\\udd22">>, <<"\\ud83a", "\\udd23">>, <<"\\ud83a", "\\udd24">>,
     <<"\\ud83a", "\\udd25">>, <<"\\ud83a", "\\udd26">>, <<"\\ud83a", "\\udd27">>,
     <<"\\ud83a", "\\udd28">>, <<"\\ud83a", "\\udd29">>, <<"\\ud83a", "\\udd2a">>,
     <<"\\ud83a", "\\udd2b">>, <<"\\ud83a", "\\udd2c">>, <<"\\ud83a", "\\udd2d">>,
     <<"\\ud83a", "\\udd2e">>, <<"\\ud83a", "\\udd2f">>, <<"\\ud83a", "\\udd30">>,
     <<"\\ud83a", "\\udd31">>, <<"\\ud83a", "\\udd32">>, <<"\\ud83a", "\\udd33">>,
     <<"\\ud83a", "\\udd34">>, <<"\\ud83a", "\\udd35">>, <<"\\ud83a", "\\udd36">>,
     <<"\\ud83a", "\\udd37">>, <<"\\ud83a", "\\udd38">>, <<"\\ud83a", "\\udd39">>,
     <<"\\ud83a", "\\udd3a">>, <<"\\ud83a", "\\udd3b">>, <<"\\ud83a", "\\udd3c">>,
     <<"\\ud83a", "\\udd3d">>, <<"\\ud83a", "\\udd3e">>, <<"\\ud83a", "\\udd3f">>,
     <<"\\ud83a", "\\udd40">>, <<"\\ud83a", "\\udd41">>, <<"\\ud83a", "\\udd42">>,
     <<"\\ud83a", "\\udd43">> >>

\* the lead and the trail code units of a surrogate pair
HighSurrogates ==
  {
     "\\ud800", "\\ud801", "\\ud802", "\\ud803", "\\ud804", "\\ud805", "\\ud806", "\\ud807",
     "\\ud808", "\\ud809", "\\ud80a", "\\ud80b", "\\ud80c", "\\ud80d", "\\ud80e", "\\ud80f",
     "\\ud810", "\\ud811", "\\ud812", "\\ud813", "\\ud814", "\\ud815", "\\ud816", "\\ud817",
     "\\ud818", "\\ud819", "\\ud81a", "\\ud81b", "\\ud81c", "\\ud81d", "\\ud81e", "\\ud81f",
     "\\ud820", "\\ud821", "\\ud822", "\\ud823", "\\ud824", "\\ud825", "\\ud826", "\\ud827",
     "\\ud828", "\\ud829", "\\ud82a", "\\ud82b", "\\ud82c", "\\ud82d", "\\ud82e", "\\ud82f",
     "\\ud830", "\\ud831", "\\ud832", "\\ud833", "\\ud834", "\\ud835", "\\ud836", "\\ud837",
     "\\ud838", "\\ud839", "\\ud83a", "\\ud83b", "\\ud83c", "\\ud83d", "\\ud83e", "\\ud83f",
     "\\ud840", "\\ud841", "\\ud842", "\\ud843", "\\ud844", "\\ud845", "\\ud846", "\\ud847",
     "\\ud848", "\\ud849", "\\ud84a", "\\ud84b", "\\ud84c", "\\ud84d", "\\ud84e", "\\ud84f",
     "\\ud850", "\\ud851", "\\ud852", "\\ud853", "\\ud854", "\\ud855", "\\ud856", "\\ud857",
     "\\ud858", "\\ud859", "\\ud85a", "\\ud85b", "\\ud85c", "\\ud85d", "\\ud85e", "\\ud85f",
     "\\ud860", "\\ud861", "\\ud862", "\\ud863", "\\ud864", "\\ud865", "\\ud866", "\\ud867",
     "\\ud868", "\\ud869", "\\ud86a", "\\ud86b", "\\ud86c", "\\ud86d", "\\ud86e", "\\ud86f",
     "\\ud870", "\\ud871", "\\ud872", "\\ud873", "\\ud874", "\\ud875", "\\ud876", "\\ud877",
     "\\ud878", "\\ud879", "\\ud87a", "\\ud87b", "\\ud87c", "\\ud87d", "\\ud87e", "\\ud87f",
     "\\ud880", "\\ud881", "\\ud882", "\\ud883", "\\ud884", "\\ud885", "\\ud886", "\\ud887",
     "\\ud888", "\\ud889", "\\ud88a", "\\ud88b", "\\ud88c", "\\ud88d", "\\ud88e", "\\ud88f",
     "\\ud890", "\\ud891", "\\ud892", "\\ud893", "\\ud894", "\\ud895", "\\ud896", "\\ud897",
     "\\ud898", "\\ud899", "\\ud89a", "\\ud89b", "\\ud89c", "\\ud89d", "\\ud89e", "\\ud89f",
     "\\ud8a0", "\\ud8a1", "\\ud8a2", "\\ud8a3", "\\ud8a4", "\\ud8a5", "\\ud8a6", "\\ud8a7",
     "\\ud8a8", "\\ud8a9", "\\ud8aa", "\\ud8ab", "\\ud8ac", "\\ud8ad", "\\ud8ae", "\\ud8af",
     "\\ud8b0", "\\ud8b1", "\\ud8b2", "\\ud8b3", "\\ud8b4", "\\ud8b5", "\\ud8b6", "\\ud8b7",
     "\\ud8b8", "\\ud8b9", "\\ud8ba", "\\ud8bb", "\\ud8bc", "\\ud8bd", "\\ud8be", "\\ud8bf",
     "\\ud8c0", "\\ud8c1", "\\ud8c2", "\\ud8c3", "\\ud8c4", "\\ud8c5", "\\ud8c6", "\\ud8c7",
     "\\ud8c8", "\\ud8c9", "\\ud8ca", "\\ud8cb", "\\ud8cc", "\\ud8cd", "\\ud8ce", "\\ud8cf",
     "\\ud8d0", "\\ud8d1", "\\ud8d2", "\\ud8d3", "\\ud8d4", "\\ud8d5", "\\ud8d6", "\\ud8d7",
     "\\ud8d8", "\\ud8d9", "\\ud8da", "\\ud8db", "\\ud8dc", "\\ud8dd", "\\ud8de", "\\ud8df",
     "\\ud8e0", "\\ud8e1", "\\ud8e2", "\\ud8e3", "\\ud8e4", "\\ud8e5", "\\ud8e6", "\\ud8e7",
     "\\ud8e8", "\\ud8e9", "\\ud8ea", "\\ud8eb", "\\ud8ec", "\\ud8ed", "\\ud8ee", "\\ud8ef",
     "\\ud8f0", "\\ud8f1", "\\ud8f2", "\\ud8f3", "\\ud8f4", "\\ud8f5", "\\ud8f6", "\\ud8f7",
     "\\ud8f8", "\\ud8f9", "\\ud8fa", "\\ud8fb", "\\ud8fc", "\\ud8fd", "\\ud8fe", "\\ud8ff",
     "\\ud900", "\\ud901", "\\ud902", "\\ud903", "\\ud904", "\\ud905", "\\ud906", "\\ud907",
     "\\ud908", "\\ud909", "\\ud90a", "\\ud90b", "\\ud90c", "\\ud90d", "\\ud90e", "\\ud90f",
     "\\ud910", "\\ud911", "\\ud912", "\\ud913", "\\ud914", "\\ud915", "\\ud916", "\\ud917",
     "\\ud918", "\\ud919", "\\ud91a", "\\ud91b", "\\ud91c", "\\ud91d", "\\ud91e", "\\ud91f",
     "\\ud920", "\\ud921", "\\ud922", "\\ud923", "\\ud924", "\\ud925", "\\ud926", "\\ud927",
     "\\ud928", "\\ud929", "\\ud92a", "\\ud92b", "\\ud92c", "\\ud92d", "\\ud92e", "\\ud92f",
     "\\ud930", "\\ud931", "\\ud932", "\\ud933", "\\ud934", "\\ud935", "\\ud936", "\\ud937",
     "\\ud938", "\\ud939", "\\ud93a", "\\ud93b", "\\ud93c", "\\ud93d", "\\ud93e", "\\ud93f",
     "\\ud940", "\\ud941", "\\ud942", "\\ud943", "\\ud944", "\\ud945", "\\ud946", "\\ud947",
     "\\ud948", "\\ud949", "\\ud94a", "\\ud94b", "\\ud94c", "\\ud94d", "\\ud94e", "\\ud94f",
     "\\ud950", "\\ud951", "\\ud952", "\\ud953", "\\ud954", "\\ud955", "\\ud956", "\\ud957",
     "\\ud958", "\\ud959", "\\ud95a", "\\ud95b", "\\ud95c", "\\ud95d", "\\ud95e", "\\ud95f",
     "\\ud960", "\\ud961", "\\ud962", "\\ud963", "\\ud964", "\\ud965", "\\ud966", "\\ud967",
     "\\ud968", "\\ud969", "\\ud96a", "\\ud96b", "\\ud96c", "\\ud96d", "\\ud96e", "\\ud96f",
     "\\ud970", "\\ud971", "\\ud972", "\\ud973", "\\ud974", "\\ud975", "\\ud976", "\\ud977",
     "\\ud978", "\\ud979", "\\ud97a", "\\ud97b", "\\ud97c", "\\ud97d", "\\ud97e", "\\ud97f",
     "\\ud980", "\\ud981", "\\ud982", "\\ud983", "\\ud984", "\\ud985", "\\ud986", "\\ud987",
     "\\ud988", "\\ud989", "\\ud98a", "\\ud98b", "\\ud98c", "\\ud98d", "\\ud98e", "\\ud98f",
     "\\ud990", "\\ud991", "\\ud992", "\\ud993", "\\ud994", "\\ud995", "\\ud996", "\\ud997",
     "\\ud998", "\\ud999", "\\ud99a", "\\ud99b", "\\ud99c", "\\ud99d", "\\ud99e", "\\ud99f",
     "\\ud9a0", "\\ud9a1", "\\ud9a2", "\\ud9a3", "\\ud9a4", "\\ud9a5", "\\ud9a6", "\\ud9a7",
     "\\ud9a8", "\\ud9a9", "\\ud9aa", "\\ud9ab", "\\ud9ac", "\\ud9ad", "\\ud9ae", "\\ud9af",
     "\\ud9b0", "\\ud9b1", "\\ud9b2", "\\ud9b3", "\\ud9b4", "\\ud9b5", "\\ud9b6", "\\ud9b7",
     "\\ud9b8", "\\ud9b9", "\\ud9ba", "\\ud9bb", "\\ud9bc", "\\ud9bd", "\\ud9be", "\\ud9bf",
     "\\ud9c0", "\\ud9c1", "\\ud9c2", "\\ud9c3", "\\ud9c4", "\\ud9c5", "\\ud9c6", "\\ud9c7",
     "\\ud9c8", "\\ud9c9", "\\ud9ca", "\\ud9cb", "\\ud9cc", "\\ud9cd", "\\ud9ce", "\\ud9cf",
     "\\ud9d0", "\\ud9d1", "\\ud9d2", "\\ud9d3", "\\ud9d4", "\\ud9d5", "\\ud9d6", "\\ud9d7",
     "\\ud9d8", "\\ud9d9", "\\ud9da", "\\ud9db", "\\ud9dc", "\\ud9dd", "\\ud9de", "\\ud9df",
     "\\ud9e0", "\\ud9e1", "\\ud9e2", "\\ud9e3", "\\ud9e4", "\\ud9e5", "\\ud9e6", "\\ud9e7",
     "\\ud9e8", "\\ud9e9", "\\ud9ea", "\\ud9eb", "\\ud9ec", "\\ud9ed", "\\ud9ee", "\\ud9ef",
     "\\ud9f0", "\\ud9f1", "\\ud9f2", "\\ud9f3", "\\ud9f4", "\\ud9f5", "\\ud9f6", "\\ud9f7",
     "\\ud9f8", "\\ud9f9", "\\ud9fa", "\\ud9fb", "\\ud9fc", "\\ud9fd", "\\ud9fe", "\\ud9ff",
     "\\uda00", "\\uda01", "\\uda02", "\\uda03", "\\uda04", "\\uda05", "\\uda06", "\\uda07",
     "\\uda08", "\\uda09", "\\uda0a", "\\uda0b", "\\uda0c", "\\uda0d", "\\uda0e", "\\uda0f",
     "\\uda10", "\\uda11", "\\uda12", "\\uda13", "\\uda14", "\\uda15", "\\uda16", "\\uda17",
     "\\uda18", "\\uda19", "\\uda1a", "\\uda1b", "\\uda1c", "\\uda1d", "\\uda1e", "\\uda1f",
     "\\uda20", "\\uda21", "\\uda22", "\\uda23", "\\uda24", "\\uda25", "\\uda26", "\\uda27",
     "\\uda28", "\\uda29", "\\uda2a", "\\uda2b", "\\uda2c", "\\uda2d", "\\uda2e", "\\uda2f",
     "\\uda30", "\\uda31", "\\uda32", "\\uda33", "\\uda34", "\\uda35", "\\uda36", "\\uda37",
     "\\uda38", "\\uda39", "\\uda3a", "\\uda3b", "\\uda3c", "\\uda3d", "\\uda3e", "\\uda3f",
     "\\uda40", "\\uda41", "\\uda42", "\\uda43", "\\uda44", "\\uda45", "\\uda46", "\\uda47",
     "\\uda48", "\\uda49", "\\uda4a", "\\uda4b", "\\uda4c", "\\uda4d", "\\uda4e", "\\uda4f",
     "\\uda50", "\\uda51", "\\uda52", "\\uda53", "\\uda54", "\\uda55", "\\uda56", "\\uda57",
     "\\uda58", "\\uda59", "\\uda5a", "\\uda5b", "\\uda5c", "\\uda5d", "\\uda5e", "\\uda5f",
     "\\uda60", "\\uda61", "\\uda62", "\\uda63", "\\uda64", "\\uda65", "\\uda66", "\\uda67",
     "\\uda68", "\\uda69", "\\uda6a", "\\uda6b", "\\uda6c", "\\uda6d", "\\uda6e", "\\uda6f",
     "\\uda70", "\\uda71", "\\uda72", "\\uda73", "\\uda74", "\\uda75", "\\uda76", "\\uda77",
     "\\uda78", "\\uda79", "\\uda7a", "\\uda7b", "\\uda7c", "\\uda7d", "\\uda7e", "\\uda7f",
     "\\uda80", "\\uda81", "\\uda82", "\\uda83", "\\uda84", "\\uda85", "\\uda86", "\\uda87",
     "\\uda88", "\\uda89", "\\uda8a", "\\uda8b", "\\uda8c", "\\uda8d", "\\uda8e", "\\uda8f",
     "\\uda90", "\\uda91", "\\uda92", "\\uda93", "\\uda94", "\\uda95", "\\uda96", "\\uda97",
     "\\uda98", "\\uda99", "\\uda9a", "\\uda9b", "\\uda9c", "\\uda9d", "\\uda9e", "\\uda9f",
     "\\udaa0", "\\udaa1", "\\udaa2", "\\udaa3", "\\udaa4", "\\udaa5", "\\udaa6", "\\udaa7",
     "\\udaa8", "\\udaa9", "\\udaaa", "\\udaab", "\\udaac", "\\udaad", "\\udaae", "\\udaaf",
     "\\udab0", "\\udab1", "\\udab2", "\\udab3", "\\udab4", "\\udab5", "\\udab6", "\\udab7",
     "\\udab8", "\\udab9", "\\udaba", "\\udabb", "\\udabc", "\\udabd", "\\udabe", "\\udabf",
     "\\udac0", "\\udac1", "\\udac2", "\\udac3", "\\udac4", "\\udac5", "\\udac6", "\\udac7",
     "\\udac8", "\\udac9", "\\udaca", "\\udacb", "\\udacc", "\\udacd", "\\udace", "\\udacf",
     "\\udad0", "\\udad1", "\\udad2", "\\udad3", "\\udad4", "\\udad5", "\\udad6", "\\udad7",
     "\\udad8", "\\udad9", "\\udada", "\\udadb", "\\udadc", "\\udadd", "\\udade", "\\udadf",
     "\\udae0", "\\udae1", "\\udae2", "\\udae3", "\\udae4", "\\udae5", "\\udae6", "\\udae7",
     "\\udae8", "\\udae9", "\\udaea", "\\udaeb", "\\udaec", "\\udaed", "\\udaee", "\\udaef",
     "\\udaf0", "\\udaf1", "\\udaf2", "\\udaf3", "\\udaf4", "\\udaf5", "\\udaf6", "\\udaf7",
     "\\udaf8", "\\udaf9", "\\udafa", "\\udafb", "\\udafc", "\\udafd", "\\udafe", "\\udaff",
     "\\udb00", "\\udb01", "\\udb02", "\\udb03", "\\udb04", "\\udb05", "\\udb06", "\\udb07",
     "\\udb08", "\\udb09", "\\udb0a", "\\udb0b", "\\udb0c", "\\udb0d", "\\udb0e", "\\udb0f",
     "\\udb10", "\\udb11", "\\udb12", "\\udb13", "\\udb14", "\\udb15", "\\udb16", "\\udb17",
     "\\udb18", "\\udb19", "\\udb1a", "\\udb1b", "\\udb1c", "\\udb1d", "\\udb1e", "\\udb1f",
     "\\udb20", "\\udb21", "\\udb22", "\\udb23", "\\udb24", "\\udb25", "\\udb26", "\\udb27",
     "\\udb28", "\\udb29", "\\udb2a", "\\udb2b", "\\udb2c", "\\udb2d", "\\udb2e", "\\udb2f",
     "\\udb30", "\\udb31", "\\udb32", "\\udb33", "\\udb34", "\\udb35", "\\udb36", "\\udb37",
     "\\udb38", "\\udb39", "\\udb3a", "\\udb3b", "\\udb3c", "\\udb3d", "\\udb3e", "\\udb3f",
     "\\udb40", "\\udb41", "\\udb42", "\\udb43", "\\udb44", "\\udb45", "\\udb46", "\\udb47",
     "\\udb48", "\\udb49", "\\udb4a", "\\udb4b", "\\udb4c", "\\udb4d", "\\udb4e", "\\udb4f",
     "\\udb50", "\\udb51", "\\udb52", "\\udb53", "\\udb54", "\\udb55", "\\udb56", "\\udb57",
     "\\udb58", "\\udb59", "\\udb5a", "\\udb5b", "\\udb5c", "\\udb5d", "\\udb5e", "\\udb5f",
     "\\udb60", "\\udb61", "\\udb62", "\\udb63", "\\udb64", "\\udb65", "\\udb66", "\\udb67",
     "\\udb68", "\\udb69", "\\udb6a", "\\udb6b", "\\udb6c", "\\udb6d", "\\udb6e", "\\udb6f",
     "\\udb70", "\\udb71", "\\udb72", "\\udb73", "\\udb74", "\\udb75", "\\udb76", "\\udb77",
     "\\udb78", "\\udb79", "\\udb7a", "\\udb7b", "\\udb7c", "\\udb7d", "\\udb7e", "\\udb7f",
     "\\udb80", "\\udb81", "\\udb82", "\\udb83", "\\udb84", "\\udb85", "\\udb86", "\\udb87",
     "\\udb88", "\\udb89", "\\udb8a", "\\udb8b", "\\udb8c", "\\udb8d", "\\udb8e", "\\udb8f",
     "\\udb90", "\\udb91", "\\udb92", "\\udb93", "\\udb94", "\\udb95", "\\udb96", "\\udb97",
     "\\udb98", "\\udb99", "\\udb9a", "\\udb9b", "\\udb9c", "\\udb9d", "\\udb9e", "\\udb9f",
     "\\udba0", "\\udba1", "\\udba2", "\\udba3", "\\udba4", "\\udba5", "\\udba6", "\\udba7",
     "\\udba8", "\\udba9", "\\udbaa", "\\udbab", "\\udbac", "\\udbad", "\\udbae", "\\udbaf",
     "\\udbb0", "\\udbb1", "\\udbb2", "\\udbb3", "\\udbb4", "\\udbb5", "\\udbb6", "\\udbb7",
     "\\udbb8", "\\udbb9", "\\udbba", "\\udbbb", "\\udbbc", "\\udbbd", "\\udbbe", "\\udbbf",
     "\\udbc0", "\\udbc1", "\\udbc2", "\\udbc3", "\\udbc4", "\\udbc5", "\\udbc6", "\\udbc7",
     "\\udbc8", "\\udbc9", "\\udbca", "\\udbcb", "\\udbcc", "\\udbcd", "\\udbce", "\\udbcf",
     "\\udbd0", "\\udbd1", "\\udbd2", "\\udbd3", "\\udbd4", "\\udbd5", "\\udbd6", "\\udbd7",
     "\\udbd8", "\\udbd9", "\\udbda", "\\udbdb", "\\udbdc", "\\udbdd", "\\udbde", "\\udbdf",
     "\\udbe0", "\\udbe1", "\\udbe2", "\\udbe3", "\\udbe4", "\\udbe5", "\\udbe6", "\\udbe7",
     "\\udbe8", "\\udbe9", "\\udbea", "\\udbeb", "\\udbec", "\\udbed", "\\udbee", "\\udbef",
     "\\udbf0", "\\udbf1", "\\udbf2", "\\udbf3", "\\udbf4", "\\udbf5", "\\udbf6", "\\udbf7",
     "\\udbf8", "\\udbf9", "\\udbfa", "\\udbfb", "\\udbfc", "\\udbfd", "\\udbfe", "\\udbff" }

LowSurrogates ==
  {
     "\\udc00", "\\udc01", "\\udc02", "\\udc03", "\\udc04", "\\udc05", "\\udc06", "\\udc07",
     "\\udc08", "\\udc09", "\\udc0a", "\\udc0b", "\\udc0c", "\\udc0d", "\\udc0e", "\\udc0f",
     "\\udc10", "\\udc11", "\\udc12", "\\udc13", "\\udc14", "\\udc15", "\\udc16", "\\udc17",
     "\\udc18", "\\udc19", "\\udc1a", "\\udc1b", "\\udc1c", "\\udc1d", "\\udc1e", "\\udc1f",
     "\\udc20", "\\udc21", "\\udc22", "\\udc23", "\\udc24", "\\udc25", "\\udc26", "\\udc27",
     "\\udc28", "\\udc29", "\\udc2a", "\\udc2b", "\\udc2c", "\\udc2d", "\\udc2e", "\\udc2f",
     "\\udc30", "\\udc31", "\\udc32", "\\udc33", "\\udc34", "\\udc35", "\\udc36", "\\udc37",
     "\\udc38", "\\udc39", "\\udc3a", "\\udc3b", "\\udc3c", "\\udc3d", "\\udc3e", "\\udc3f",
     "\\udc40", "\\udc41", "\\udc42", "\\udc43", "\\udc44", "\\udc45", "\\udc46", "\\udc47",
     "\\udc48", "\\udc49", "\\udc4a", "\\udc4b", "\\udc4c", "\\udc4d", "\\udc4e", "\\udc4f",
     "\\udc50", "\\udc51", "\\udc52", "\\udc53", "\\udc54", "\\udc55", "\\udc56", "\\udc57",
     "\\udc58", "\\udc59", "\\udc5a", "\\udc5b", "\\udc5c", "\\udc5d", "\\udc5e", "\\udc5f",
     "\\udc60", "\\udc61", "\\udc62", "\\udc63", "\\udc64", "\\udc65", "\\udc66", "\\udc67",
     "\\udc68", "\\udc69", "\\udc6a", "\\udc6b", "\\udc6c", "\\udc6d", "\\udc6e", "\\udc6f",
     "\\udc70", "\\udc71", "\\udc72", "\\udc73", "\\udc74", "\\udc75", "\\udc76", "\\udc77",
     "\\udc78", "\\udc79", "\\udc7a", "\\udc7b", "\\udc7c", "\\udc7d", "\\udc7e", "\\udc7f",
     "\\udc80", "\\udc81", "\\udc82", "\\udc83", "\\udc84", "\\udc85", "\\udc86", "\\udc87",
     "\\udc88", "\\udc89", "\\udc8a", "\\udc8b", "\\udc8c", "\\udc8d", "\\udc8e", "\\udc8f",
     "\\udc90", "\\udc91", "\\udc92", "\\udc93", "\\udc94", "\\udc95", "\\udc96", "\\udc97",
     "\\udc98", "\\udc99", "\\udc9a", "\\udc9b", "\\udc9c", "\\udc9d", "\\udc9e", "\\udc9f",
     "\\udca0", "\\udca1", "\\udca2", "\\udca3", "\\udca4", "\\udca5", "\\udca6", "\\udca7",
     "\\udca8", "\\udca9", "\\udcaa", "\\udcab", "\\udcac", "\\udcad", "\\udcae", "\\udcaf",
     "\\udcb0", "\\udcb1", "\\udcb2", "\\udcb3", "\\udcb4", "\\udcb5", "\\udcb6", "\\udcb7",
     "\\udcb8", "\\udcb9", "\\udcba", "\\udcbb", "\\udcbc", "\\udcbd", "\\udcbe", "\\udcbf",
     "\\udcc0", "\\udcc1", "\\udcc2", "\\udcc3", "\\udcc4", "\\udcc5", "\\udcc6", "\\udcc7",
     "\\udcc8", "\\udcc9", "\\udcca", "\\udccb", "\\udccc", "\\udccd", "\\udcce", "\\udccf",
     "\\udcd0", "\\udcd1", "\\udcd2", "\\udcd3", "\\udcd4", "\\udcd5", "\\udcd6", "\\udcd7",
     "\\udcd8", "\\udcd9", "\\udcda", "\\udcdb", "\\udcdc", "\\udcdd", "\\udcde", "\\udcdf",
     "\\udce0", "\\udce1", "\\udce2", "\\udce3", "\\udce4", "\\udce5", "\\udce6", "\\udce7",
     "\\udce8", "\\udce9", "\\udcea", "\\udceb", "\\udcec", "\\udced", "\\udcee", "\\udcef",
     "\\udcf0", "\\udcf1", "\\udcf2", "\\udcf3", "\\udcf4", "\\udcf5", "\\udcf6", "\\udcf7",
     "\\udcf8", "\\udcf9", "\\udcfa", "\\udcfb", "\\udcfc", "\\udcfd", "\\udcfe", "\\udcff",
     "\\udd00", "\\udd01", "\\udd02", "\\udd03", "\\udd04", "\\udd05", "\\udd06", "\\udd07",
     "\\udd08", "\\udd09", "\\udd0a", "\\udd0b", "\\udd0c", "\\udd0d", "\\udd0e", "\\udd0f",
     "\\udd10", "\\udd11", "\\udd12", "\\udd13", "\\udd14", "\\udd15", "\\udd16", "\\udd17",
     "\\udd18", "\\udd19", "\\udd1a", "\\udd1b", "\\udd1c", "\\udd1d", "\\udd1e", "\\udd1f",
     "\\udd20", "\\udd21", "\\udd22", "\\udd23", "\\udd24", "\\udd25", "\\udd26", "\\udd27",
     "\\udd28", "\\udd29", "\\udd2a", "\\udd2b", "\\udd2c", "\\udd2d", "\\udd2e", "\\udd2f",
     "\\udd30", "\\udd31", "\\udd32", "\\udd33", "\\udd34", "\\udd35", "\\udd36", "\\udd37",
     "\\udd38", "\\udd39", "\\udd3a", "\\udd3b", "\\udd3c", "\\udd3d", "\\udd3e", "\\udd3f",
     "\\udd40", "\\udd41", "\\udd42", "\\udd43", "\\udd44", "\\udd45", "\\udd46", "\\udd47",
     "\\udd48", "\\udd49", "\\udd4a", "\\udd4b", "\\udd4c", "\\udd4d", "\\udd4e", "\\udd4f",
     "\\udd50", "\\udd51", "\\udd52", "\\udd53", "\\udd54", "\\udd55", "\\udd56", "\\udd57",
     "\\udd58", "\\udd59", "\\udd5a", "\\udd5b", "\\udd5c", "\\udd5d", "\\udd5e", "\\udd5f",
     "\\udd60", "\\udd61", "\\udd62", "\\udd63", "\\udd64", "\\udd65", "\\udd66", "\\udd67",
     "\\udd68", "\\udd69", "\\udd6a", "\\udd6b", "\\udd6c", "\\udd6d", "\\udd6e", "\\udd6f",
     "\\udd70", "\\udd71", "\\udd72", "\\udd73", "\\udd74", "\\udd75", "\\udd76", "\\udd77",
     "\\udd78", "\\udd79", "\\udd7a", "\\udd7b", "\\udd7c", "\\udd7d", "\\udd7e", "\\udd7f",
     "\\udd80", "\\udd81", "\\udd82", "\\udd83", "\\udd84", "\\udd85", "\\udd86", "\\udd87",
     "\\udd88", "\\udd89", "\\udd8a", "\\udd8b", "\\udd8c", "\\udd8d", "\\udd8e", "\\udd8f",
     "\\udd90", "\\udd91", "\\udd92", "\\udd93", "\\udd94", "\\udd95", "\\udd96", "\\udd97",
     "\\udd98", "\\udd99", "\\udd9a", "\\udd9b", "\\udd9c", "\\udd9d", "\\udd9e", "\\udd9f",
     "\\udda0", "\\udda1", "\\udda2", "\\udda3", "\\udda4", "\\udda5", "\\udda6", "\\udda7",
     "\\udda8", "\\udda9", "\\uddaa", "\\uddab", "\\uddac", "\\uddad", "\\uddae", "\\uddaf",
     "\\uddb0", "\\uddb1", "\\uddb2", "\\uddb3", "\\uddb4", "\\uddb5", "\\uddb6", "\\uddb7",
     "\\uddb8", "\\uddb9", "\\uddba", "\\uddbb", "\\uddbc", "\\uddbd", "\\uddbe", "\\uddbf",
     "\\uddc0", "\\uddc1", "\\uddc2", "\\uddc3", "\\uddc4", "\\uddc5", "\\uddc6", "\\uddc7",
     "\\uddc8", "\\uddc9", "\\uddca", "\\uddcb", "\\uddcc", "\\uddcd", "\\uddce", "\\uddcf",
     "\\uddd0", "\\uddd1", "\\uddd2", "\\uddd3", "\\uddd4", "\\uddd5", "\\uddd6", "\\uddd7",
     "\\uddd8", "\\uddd9", "\\uddda", "\\udddb", "\\udddc", "\\udddd", "\\uddde", "\\udddf",
     "\\udde0", "\\udde1", "\\udde2", "\\udde3", "\\udde4", "\\udde5", "\\udde6", "\\udde7",
     "\\udde8", "\\udde9", "\\uddea", "\\uddeb", "\\uddec", "\\udded", "\\uddee", "\\uddef",
     "\\uddf0", "\\uddf1", "\\uddf2", "\\uddf3", "\\uddf4", "\\uddf5", "\\uddf6", "\\uddf7",
     "\\uddf8", "\\uddf9", "\\uddfa", "\\uddfb", "\\uddfc", "\\uddfd", "\\uddfe", "\\uddff",
     "\\ude00", "\\ude01", "\\ude02", "\\ude03", "\\ude04", "\\ude05", "\\ude06", "\\ude07",
     "\\ude08", "\\ude09", "\\ude0a", "\\ude0b", "\\ude0c", "\\ude0d", "\\ude0e", "\\ude0f",
     "\\ude10", "\\ude11", "\\ude12", "\\ude13", "\\ude14", "\\ude15", "\\ude16", "\\ude17",
     "\\ude18", "\\ude19", "\\ude1a", "\\ude1b", "\\ude1c", "\\ude1d", "\\ude1e", "\\ude1f",
     "\\ude20", "\\ude21", "\\ude22", "\\ude23", "\\ude24", "\\ude25", "\\ude26", "\\ude27",
     "\\ude28", "\\ude29", "\\ude2a", "\\ude2b", "\\ude2c", "\\ude2d", "\\ude2e", "\\ude2f",
     "\\ude30", "\\ude31", "\\ude32", "\\ude33", "\\ude34", "\\ude35", "\\ude36", "\\ude37",
     "\\ude38", "\\ude39", "\\ude3a", "\\ude3b", "\\ude3c", "\\ude3d", "\\ude3e", "\\ude3f",
     "\\ude40", "\\ude41", "\\ude42", "\\ude43", "\\ude44", "\\ude45", "\\ude46", "\\ude47",
     "\\ude48", "\\ude49", "\\ude4a", "\\ude4b", "\\ude4c", "\\ude4d", "\\ude4e", "\\ude4f",
     "\\ude50", "\\ude51", "\\ude52", "\\ude53", "\\ude54", "\\ude55", "\\ude56", "\\ude57",
     "\\ude58", "\\ude59", "\\ude5a", "\\ude5b", "\\ude5c", "\\ude5d", "\\ude5e", "\\ude5f",
     "\\ude60", "\\ude61", "\\ude62", "\\ude63", "\\ude64", "\\ude65", "\\ude66", "\\ude67",
     "\\ude68", "\\ude69", "\\ude6a", "\\ude6b", "\\ude6c", "\\ude6d", "\\ude6e", "\\ude6f",
     "\\ude70", "\\ude71", "\\ude72", "\\ude73", "\\ude74", "\\ude75", "\\ude76", "\\ude77",
     "\\ude78", "\\ude79", "\\ude7a", "\\ude7b", "\\ude7c", "\\ude7d", "\\ude7e", "\\ude7f",
     "\\ude80", "\\ude81", "\\ude82", "\\ude83", "\\ude84", "\\ude85", "\\ude86", "\\ude87",
     "\\ude88", "\\ude89", "\\ude8a", "\\ude8b", "\\ude8c", "\\ude8d", "\\ude8e", "\\ude8f",
     "\\ude90", "\\ude91", "\\ude92", "\\ude93", "\\ude94", "\\ude95", "\\ude96", "\\ude97",
     "\\ude98", "\\ude99", "\\ude9a", "\\ude9b", "\\ude9c", "\\ude9d", "\\ude9e", "\\ude9f",
     "\\udea0", "\\udea1", "\\udea2", "\\udea3", "\\udea4", "\\udea5", "\\udea6", "\\udea7",
     "\\udea8", "\\udea9", "\\udeaa", "\\udeab", "\\udeac", "\\udead", "\\udeae", "\\udeaf",
     "\\udeb0", "\\udeb1", "\\udeb2", "\\udeb3", "\\udeb4", "\\udeb5", "\\udeb6", "\\udeb7",
     "\\udeb8", "\\udeb9", "\\udeba", "\\udebb", "\\udebc", "\\udebd", "\\udebe", "\\udebf",
     "\\udec0", "\\udec1", "\\udec2", "\\udec3", "\\udec4", "\\udec5", "\\udec6", "\\udec7",
     "\\udec8", "\\udec9", "\\udeca", "\\udecb", "\\udecc", "\\udecd", "\\udece", "\\udecf",
     "\\uded0", "\\uded1", "\\uded2", "\\uded3", "\\uded4", "\\uded5", "\\uded6", "\\uded7",
     "\\uded8", "\\uded9", "\\udeda", "\\udedb", "\\udedc", "\\udedd", "\\udede", "\\udedf",
     "\\udee0", "\\udee1", "\\udee2", "\\udee3", "\\udee4", "\\udee5", "\\udee6", "\\udee7",
     "\\udee8", "\\udee9", "\\udeea", "\\udeeb", "\\udeec", "\\udeed", "\\udeee", "\\udeef",
     "\\udef0", "\\udef1", "\\udef2", "\\udef3", "\\udef4", "\\udef5", "\\udef6", "\\udef7",
     "\\udef8", "\\udef9", "\\udefa", "\\udefb", "\\udefc", "\\udefd", "\\udefe", "\\udeff",
     "\\udf00", "\\udf01", "\\udf02", "\\udf03", "\\udf04", "\\udf05", "\\udf06", "\\udf07",
     "\\udf08", "\\udf09", "\\udf0a", "\\udf0b", "\\udf0c", "\\udf0d", "\\udf0e", "\\udf0f",
     "\\udf10", "\\udf11", "\\udf12", "\\udf13", "\\udf14", "\\udf15", "\\udf16", "\\udf17",
     "\\udf18", "\\udf19", "\\udf1a", "\\udf1b", "\\udf1c", "\\udf1d", "\\udf1e", "\\udf1f",
     "\\udf20", "\\udf21", "\\udf22", "\\udf23", "\\udf24", "\\udf25", "\\udf26", "\\udf27",
     "\\udf28", "\\udf29", "\\udf2a", "\\udf2b", "\\udf2c", "\\udf2d", "\\udf2e", "\\udf2f",
     "\\udf30", "\\udf31", "\\udf32", "\\udf33", "\\udf34", "\\udf35", "\\udf36", "\\udf37",
     "\\udf38", "\\udf39", "\\udf3a", "\\udf3b", "\\udf3c", "\\udf3d", "\\udf3e", "\\udf3f",
     "\\udf40", "\\udf41", "\\udf42", "\\udf43", "\\udf44", "\\udf45", "\\udf46", "\\udf47",
     "\\udf48", "\\udf49", "\\udf4a", "\\udf4b", "\\udf4c", "\\udf4d", "\\udf4e", "\\udf4f",
     "\\udf50", "\\udf51", "\\udf52", "\\udf53", "\\udf54", "\\udf55", "\\udf56", "\\udf57",
     "\\udf58", "\\udf59", "\\udf5a", "\\udf5b", "\\udf5c", "\\udf5d", "\\udf5e", "\\udf5f",
     "\\udf60", "\\udf61", "\\udf62", "\\udf63", "\\udf64", "\\udf65", "\\udf66", "\\udf67",
     "\\udf68", "\\udf69", "\\udf6a", "\\udf6b", "\\udf6c", "\\udf6d", "\\udf6e", "\\udf6f",
     "\\udf70", "\\udf71", "\\udf72", "\\udf73", "\\udf74", "\\udf75", "\\udf76", "\\udf77",
     "\\udf78", "\\udf79", "\\udf7a", "\\udf7b", "\\udf7c", "\\udf7d", "\\udf7e", "\\udf7f",
     "\\udf80", "\\udf81", "\\udf82", "\\udf83", "\\udf84", "\\udf85", "\\udf86", "\\udf87",
     "\\udf88", "\\udf89", "\\udf8a", "\\udf8b", "\\udf8c", "\\udf8d", "\\udf8e", "\\udf8f",
     "\\udf90", "\\udf91", "\\udf92", "\\udf93", "\\udf94", "\\udf95", "\\udf96", "\\udf97",
     "\\udf98", "\\udf99", "\\udf9a", "\\udf9b", "\\udf9c", "\\udf9d", "\\udf9e", "\\udf9f",
     "\\udfa0", "\\udfa1", "\\udfa2", "\\udfa3", "\\udfa4", "\\udfa5", "\\udfa6", "\\udfa7",
     "\\udfa8", "\\udfa9", "\\udfaa", "\\udfab", "\\udfac", "\\udfad", "\\udfae", "\\udfaf",
     "\\udfb0", "\\udfb1", "\\udfb2", "\\udfb3", "\\udfb4", "\\udfb5", "\\udfb6", "\\udfb7",
     "\\udfb8", "\\udfb9", "\\udfba", "\\udfbb", "\\udfbc", "\\udfbd", "\\udfbe", "\\udfbf",
     "\\udfc0", "\\udfc1", "\\udfc2", "\\udfc3", "\\udfc4", "\\udfc5", "\\udfc6", "\\udfc7",
     "\\udfc8", "\\udfc9", "\\udfca", "\\udfcb", "\\udfcc", "\\udfcd", "\\udfce", "\\udfcf",
     "\\udfd0", "\\udfd1", "\\udfd2", "\\udfd3", "\\udfd4", "\\udfd5", "\\udfd6", "\\udfd7",
     "\\udfd8", "\\udfd9", "\\udfda", "\\udfdb", "\\udfdc", "\\udfdd", "\\udfde", "\\udfdf",
     "\\udfe0", "\\udfe1", "\\udfe2", "\\udfe3", "\\udfe4", "\\udfe5", "\\udfe6", "\\udfe7",
     "\\udfe8", "\\udfe9", "\\udfea", "\\udfeb", "\\udfec", "\\udfed", "\\udfee", "\\udfef",
     "\\udff0", "\\udff1", "\\udff2", "\\udff3", "\\udff4", "\\udff5", "\\udff6", "\\udff7",
     "\\udff8", "\\udff9", "\\udffa", "\\udffb", "\\udffc", "\\udffd", "\\udffe", "\\udfff" }

\* the code points the Final_Sigma context skips (Case_Ignorable)
CaseIgnorable ==
  {
     <<"'">>, <<".">>, <<":">>, <<"^">>, <<"\\u0060">>, <<"¨">>, <<"­">>, <<"¯">>, <<"´">>,
     <<"·">>, <<"¸">>, <<"ʰ">>, <<"ʱ">>, <<"ʲ">>, <<"ʳ">>, <<"ʴ">>, <<"ʵ">>, <<"ʶ">>, <<"ʷ">>,
     <<"ʸ">>, <<"ʹ">>, <<"ʺ">>, <<"ʻ">>, <<"ʼ">>, <<"ʽ">>, <<"ʾ">>, <<"ʿ">>, <<"ˀ">>, <<"ˁ">>,
     <<"˂">>, <<"˃">>, <<"˄">>, <<"˅">>, <<"ˆ">>, <<"ˇ">>, <<"ˈ">>, <<"ˉ">>, <<"ˊ">>, <<"ˋ">>,
     <<"ˌ">>, <<"ˍ">>, <<"ˎ">>, <<"ˏ">>, <<"ː">>, <<"ˑ">>, <<"˒">>, <<"˓">>, <<"˔">>, <<"˕">>,
     <<"˖">>, <<"˗">>, <<"˘">>, <<"˙">>, <<"˚">>, <<"˛">>, <<"˜">>, <<"˝">>, <<"˞">>, <<"˟">>,
     <<"ˠ">>, <<"ˡ">>, <<"ˢ">>, <<"ˣ">>, <<"ˤ">>, <<"˥">>, <<"˦">>, <<"˧">>, <<"˨">>, <<"˩">>,
     <<"˪">>, <<"˫">>, <<"ˬ">>, <<"˭">>, <<"ˮ">>, <<"˯">>, <<"˰">>, <<"˱">>, <<"˲">>, <<"˳">>,
     <<"˴">>, <<"˵">>, <<"˶">>, <<"˷">>, <<"˸">>, <<"˹">>, <<"˺">>, <<"˻">>, <<"˼">>, <<"˽">>,
     <<"˾">>, <<"˿">>, <<"\\u0300">>, <<"\\u0301">>, <<"\\u0302">>, <<"\\u0303">>, <<"\\u0304">>,
     <<"\\u0305">>, <<"\\u0306">>, <<"\\u0307">>, <<"\\u0308">>, <<"\\u0309">>, <<"\\u030a">>,
     <<"\\u030b">>, <<"\\u030c">>, <<"\\u030d">>, <<"\\u030e">>, <<"\\u030f">>, <<"\\u0310">>,
     <<"\\u0311">>, <<"\\u0312">>, <<"\\u0313">>, <<"\\u0314">>, <<"\\u0315">>, <<"\\u0316">>,
     <<"\\u0317">>, <<"\\u0318">>, <<"\\u0319">>, <<"\\u031a">>, <<"\\u031b">>, <<"\\u031c">>,
     <<"\\u031d">>, <<"\\u031e">>, <<"\\u031f">>, <<"\\u0320">>, <<"\\u0321">>, <<"\\u0322">>,
     <<"\\u0323">>, <<"\\u0324">>, <<"\\u0325">>, <<"\\u0326">>, <<"\\u0327">>, <<"\\u0328">>,
     <<"\\u0329">>, <<"\\u032a">>, <<"\\u032b">>, <<"\\u032c">>, <<"\\u032d">>, <<"\\u032e">>,
     <<"\\u032f">>, <<"\\u0330">>, <<"\\u0331">>, <<"\\u0332">>, <<"\\u0333">>, <<"\\u0334">>,
     <<"\\u0335">>, <<"\\u0336">>, <<"\\u0337">>, <<"\\u0338">>, <<"\\u0339">>, <<"\\u033a">>,
     <<"\\u033b">>, <<"\\u033c">>, <<"\\u033d">>, <<"\\u033e">>, <<"\\u033f">>, <<"\\u0340">>,
     <<"\\u0341">>, <<"\\u0342">>, <<"\\u0343">>, <<"\\u0344">>, <<"\\u0345">>, <<"\\u0346">>,
     <<"\\u0347">>, <<"\\u0348">>, <<"\\u0349">>, <<"\\u034a">>, <<"\\u034b">>, <<"\\u034c">>,
     <<"\\u034d">>, <<"\\u034e">>, <<"\\u034f">>, <<"\\u0350">>, <<"\\u0351">>, <<"\\u0352">>,
     <<"\\u0353">>, <<"\\u0354">>, <<"\\u0355">>, <<"\\u0356">>, <<"\\u0357">>, <<"\\u0358">>,
     <<"\\u0359">>, <<"\\u035a">>, <<"\\u035b">>, <<"\\u035c">>, <<"\\u035d">>, <<"\\u035e">>,
     <<"\\u035f">>, <<"\\u0360">>, <<"\\u0361">>, <<"\\u0362">>, <<"\\u0363">>, <<"\\u0364">>,
     <<"\\u0365">>, <<"\\u0366">>, <<"\\u0367">>, <<"\\u0368">>, <<"\\u0369">>, <<"\\u036a">>,
     <<"\\u036b">>, <<"\\u036c">>, <<"\\u036d">>, <<"\\u036e">>, <<"\\u036f">>, <<"\\u0374">>,
     <<"\\u0375">>, <<"\\u037a">>, <<"΄">>, <<"΅">>, <<"·">>, <<"҃">>, <<"҄">>, <<"҅">>, <<"҆">>,
     <<"҇">>, <<"҈">>, <<"҉">>, <<"\\u0559">>, <<"\\u055f">>, <<"֑">>, <<"֒">>, <<"֓">>, <<"֔">>,
     <<"֕">>, <<"֖">>, <<"֗">>, <<"֘">>, <<"֙">>, <<"֚">>, <<"֛">>, <<"֜">>, <<"֝">>, <<"֞">>,
     <<"֟">>, <<"֠">>, <<"֡">>, <<"֢">>, <<"֣">>, <<"֤">>, <<"֥">>, <<"֦">>, <<"֧">>, <<"֨">>,
     <<"֩">>, <<"֪">>, <<"֫">>, <<"֬">>, <<"֭">>, <<"֮">>, <<"֯">>, <<"ְ">>, <<"ֱ">>, <<"ֲ">>,
     <<"ֳ">>, <<"ִ">>, <<"ֵ">>, <<"ֶ">>, <<"ַ">>, <<"ָ">>, <<"ֹ">>, <<"ֺ">>, <<"ֻ">>, <<"ּ">>,
     <<"ֽ">>, <<"ֿ">>, <<"ׁ">>, <<"ׂ">>, <<"ׄ">>, <<"ׅ">>, <<"ׇ">>, <<"״">>, <<"\\u0600">>,
     <<"\\u0601">>, <<"\\u0602">>, <<"\\u0603">>, <<"\\u0604">>, <<"\\u0605">>, <<"\\u0610">>,
     <<"\\u0611">>, <<"\\u0612">>, <<"\\u0613">>, <<"\\u0614">>, <<"\\u0615">>, <<"\\u0616">>,
     <<"\\u0617">>, <<"\\u0618">>, <<"\\u0619">>, <<"\\u061a">>, <<"\\u061c">>, <<"\\u0640">>,
     <<"\\u064b">>, <<"\\u064c">>, <<"\\u064d">>, <<"\\u064e">>, <<"\\u064f">>, <<"\\u0650">>,
     <<"\\u0651">>, <<"\\u0652">>, <<"\\u0653">>, <<"\\u0654">>, <<"\\u0655">>, <<"\\u0656">>,
     <<"\\u0657">>, <<"\\u0658">>, <<"\\u0659">>, <<"\\u065a">>, <<"\\u065b">>, <<"\\u065c">>,
     <<"\\u065d">>, <<"\\u065e">>, <<"\\u065f">>, <<"\\u0670">>, <<"ۖ">>, <<"ۗ">>, <<"ۘ">>,
     <<"ۙ">>, <<"ۚ">>, <<"ۛ">>, <<"ۜ">>, <<"۝">>, <<"۟">>, <<"۠">>, <<"ۡ">>, <<"ۢ">>, <<"ۣ">>,
     <<"ۤ">>, <<"ۥ">>, <<"ۦ">>, <<"ۧ">>, <<"ۨ">>, <<"۪">>, <<"۫">>, <<"۬">>, <<"ۭ">>,
     <<"\\u070f">>, <<"\\u0711">>, <<"\\u0730">>, <<"\\u0731">>, <<"\\u0732">>, <<"\\u0733">>,
     <<"\\u0734">>, <<"\\u0735">>, <<"\\u0736">>, <<"\\u0737">>, <<"\\u0738">>, <<"\\u0739">>,
     <<"\\u073a">>, <<"\\u073b">>, <<"\\u073c">>, <<"\\u073d">>, <<"\\u073e">>, <<"\\u073f">>,
     <<"\\u0740">>, <<"\\u0741">>, <<"\\u0742">>, <<"\\u0743">>, <<"\\u0744">>, <<"\\u0745">>,
     <<"\\u0746">>, <<"\\u0747">>, <<"\\u0748">>, <<"\\u0749">>, <<"\\u074a">>, <<"ަ">>, <<"ާ">>,
     <<"ި">>, <<"ީ">>, <<"ު">>, <<"ޫ">>, <<"ެ">>, <<"ޭ">>, <<"ޮ">>, <<"ޯ">>, <<"ް">>, <<"߫">>,
     <<"߬">>, <<"߭">>, <<"߮">>, <<"߯">>, <<"߰">>, <<"߱">>, <<"߲">>, <<"߳">>, <<"ߴ">>, <<"ߵ">>,
     <<"ߺ">>, <<"߽">>, <<"\\u0816">>, <<"\\u0817">>, <<"\\u0818">>, <<"\\u0819">>, <<"\\u081a">>,
     <<"\\u081b">>, <<"\\u081c">>, <<"\\u081d">>, <<"\\u081e">>, <<"\\u081f">>, <<"\\u0820">>,
     <<"\\u0821">>, <<"\\u0822">>, <<"\\u0823">>, <<"\\u0824">>, <<"\\u0825">>, <<"\\u0826">>,
     <<"\\u0827">>, <<"\\u0828">>, <<"\\u0829">>, <<"\\u082a">>, <<"\\u082b">>, <<"\\u082c">>,
     <<"\\u082d">>, <<"\\u0859">>, <<"\\u085a">>, <<"\\u085b">>, <<"࢈">>, <<"࢐">>, <<"࢑">>,
     <<"ࢗ">>, <<"࢘">>, <<"࢙">>, <<"࢚">>, <<"࢛">>, <<"࢜">>, <<"࢝">>, <<"࢞">>, <<"࢟">>, <<"ࣉ">>,
     <<"࣊">>, <<"࣋">>, <<"࣌">>, <<"࣍">>, <<"࣎">>, <<"࣏">>, <<"࣐">>, <<"࣑">>, <<"࣒">>, <<"࣓">>,
     <<"ࣔ">>, <<"ࣕ">>, <<"ࣖ">>, <<"ࣗ">>, <<"ࣘ">>, <<"ࣙ">>, <<"ࣚ">>, <<"ࣛ">>, <<"ࣜ">>, <<"ࣝ">>,
     <<"ࣞ">>, <<"ࣟ">>, <<"࣠">>, <<"࣡">>, <<"࣢">>, <<"ࣣ">>, <<"ࣤ">>, <<"ࣥ">>, <<"ࣦ">>, <<"ࣧ">>,
     <<"ࣨ">>, <<"ࣩ">>, <<"࣪">>, <<"࣫">>, <<"࣬">>, <<"࣭">>, <<"࣮">>, <<"࣯">>, <<"ࣰ">>, <<"ࣱ">>,
     <<"ࣲ">>, <<"ࣳ">>, <<"ࣴ">>, <<"ࣵ">>, <<"ࣶ">>, <<"ࣷ">>, <<"ࣸ">>, <<"ࣹ">>, <<"ࣺ">>, <<"ࣻ">>,
     <<"ࣼ">>, <<"ࣽ">>, <<"ࣾ">>, <<"ࣿ">>, <<"\\u0900">>, <<"\\u0901">>, <<"\\u0902">>,
     <<"\\u093a">>, <<"\\u093c">>, <<"\\u0941">>, <<"\\u0942">>, <<"\\u0943">>, <<"\\u0944">>,
     <<"\\u0945">>, <<"\\u0946">>, <<"\\u0947">>, <<"\\u0948">>, <<"\\u094d">>, <<"\\u0951">>,
     <<"\\u0952">>, <<"\\u0953">>, <<"\\u0954">>, <<"\\u0955">>, <<"\\u0956">>, <<"\\u0957">>,
     <<"\\u0962">>, <<"\\u0963">>, <<"\\u0971">>, <<"ঁ">>, <<"়">>, <<"ু">>, <<"ূ">>, <<"ৃ">>,
     <<"ৄ">>, <<"্">>, <<"ৢ">>, <<"ৣ">>, <<"৾">>, <<"\\u0a01">>, <<"\\u0a02">>, <<"\\u0a3c">>,
     <<"\\u0a41">>, <<"\\u0a42">>, <<"\\u0a47">>, <<"\\u0a48">>, <<"\\u0a4b">>, <<"\\u0a4c">>,
     <<"\\u0a4d">>, <<"\\u0a51">>, <<"\\u0a70">>, <<"\\u0a71">>, <<"\\u0a75">>, <<"ઁ">>, <<"ં">>,
     <<"઼">>, <<"ુ">>, <<"ૂ">>, <<"ૃ">>, <<"ૄ">>, <<"ૅ">>, <<"ે">>, <<"ૈ">>, <<"્">>, <<"ૢ">>,
     <<"ૣ">>, <<"ૺ">>, <<"ૻ">>, <<"ૼ">>, <<"૽">>, <<"૾">>, <<"૿">>, <<"\\u0b01">>, <<"\\u0b3c">>,
     <<"\\u0b3f">>, <<"\\u0b41">>, <<"\\u0b42">>, <<"\\u0b43">>, <<"\\u0b44">>, <<"\\u0b4d">>,
     <<"\\u0b55">>, <<"\\u0b56">>, <<"\\u0b62">>, <<"\\u0b63">>, <<"ஂ">>, <<"ீ">>, <<"்">>,
     <<"\\u0c00">>, <<"\\u0c04">>, <<"\\u0c3c">>, <<"\\u0c3e">>, <<"\\u0c3f">>, <<"\\u0c40">>,
     <<"\\u0c46">>, <<"\\u0c47">>, <<"\\u0c48">>, <<"\\u0c4a">>, <<"\\u0c4b">>, <<"\\u0c4c">>,
     <<"\\u0c4d">>, <<"\\u0c55">>, <<"\\u0c56">>, <<"\\u0c62">>, <<"\\u0c63">>, <<"ಁ">>, <<"಼">>,
     <<"ಿ">>, <<"ೆ">>, <<"ೌ">>, <<"್">>, <<"ೢ">>, <<"ೣ">>, <<"\\u0d00">>, <<"\\u0d01">>,
     <<"\\u0d3b">>, <<"\\u0d3c">>, <<"\\u0d41">>, <<"\\u0d42">>, <<"\\u0d43">>, <<"\\u0d44">>,
     <<"\\u0d4d">>, <<"\\u0d62">>, <<"\\u0d63">>, <<"ඁ">>, <<"්">>, <<"ි">>, <<"ී">>, <<"ු">>,
     <<"ූ">>, <<"\\u0e31">>, <<"\\u0e34">>, <<"\\u0e35">>, <<"\\u0e36">>, <<"\\u0e37">>,
     <<"\\u0e38">>, <<"\\u0e39">>, <<"\\u0e3a">>, <<"\\u0e46">>, <<"\\u0e47">>, <<"\\u0e48">>,
     <<"\\u0e49">>, <<"\\u0e4a">>, <<"\\u0e4b">>, <<"\\u0e4c">>, <<"\\u0e4d">>, <<"\\u0e4e">>,
     <<"ັ">>, <<"ິ">>, <<"ີ">>, <<"ຶ">>, <<"ື">>, <<"ຸ">>, <<"ູ">>, <<"຺">>, <<"ົ">>, <<"ຼ">>,
     <<"ໆ">>, <<"່">>, <<"້">>, <<"໊">>, <<"໋">>, <<"໌">>, <<"ໍ">>, <<"໎">>, <<"\\u0f18">>,
     <<"\\u0f19">>, <<"\\u0f35">>, <<"\\u0f37">>, <<"\\u0f39">>, <<"\\u0f71">>, <<"\\u0f72">>,
     <<"\\u0f73">>, <<"\\u0f74">>, <<"\\u0f75">>, <<"\\u0f76">>, <<"\\u0f77">>, <<"\\u0f78">>,
     <<"\\u0f79">>, <<"\\u0f7a">>, <<"\\u0f7b">>, <<"\\u0f7c">>, <<"\\u0f7d">>, <<"\\u0f7e">>,
     <<"ྀ">>, <<"ཱྀ">>, <<"ྂ">>, <<"ྃ">>, <<"྄">>, <<"྆">>, <<"྇">>, <<"ྍ">>, <<"ྎ">>, <<"ྏ">>,
     <<"ྐ">>, <<"ྑ">>, <<"ྒ">>, <<"ྒྷ">>, <<"ྔ">>, <<"ྕ">>, <<"ྖ">>, <<"ྗ">>, <<"ྙ">>, <<"ྚ">>,
     <<"ྛ">>, <<"ྜ">>, <<"ྜྷ">>, <<"ྞ">>, <<"ྟ">>, <<"ྠ">>, <<"ྡ">>, <<"ྡྷ">>, <<"ྣ">>, <<"ྤ">>,
     <<"ྥ">>, <<"ྦ">>, <<"ྦྷ">>, <<"ྨ">>, <<"ྩ">>, <<"ྪ">>, <<"ྫ">>, <<"ྫྷ">>, <<"ྭ">>, <<"ྮ">>,
     <<"ྯ">>, <<"ྰ">>, <<"ྱ">>, <<"ྲ">>, <<"ླ">>, <<"ྴ">>, <<"ྵ">>, <<"ྶ">>, <<"ྷ">>, <<"ྸ">>,
     <<"ྐྵ">>, <<"ྺ">>, <<"ྻ">>, <<"ྼ">>, <<"࿆">>, <<"\\u102d">>, <<"\\u102e">>, <<"\\u102f">>,
     <<"\\u1030">>, <<"\\u1032">>, <<"\\u1033">>, <<"\\u1034">>, <<"\\u1035">>, <<"\\u1036">>,
     <<"\\u1037">>, <<"\\u1039">>, <<"\\u103a">>, <<"\\u103d">>, <<"\\u103e">>, <<"\\u1058">>,
     <<"\\u1059">>, <<"\\u105e">>, <<"\\u105f">>, <<"\\u1060">>, <<"\\u1071">>, <<"\\u1072">>,
     <<"\\u1073">>, <<"\\u1074">>, <<"ႂ">>, <<"ႅ">>, <<"ႆ">>, <<"ႍ">>, <<"ႝ">>, <<"ჼ">>,
     <<"\\u135d">>, <<"\\u135e">>, <<"\\u135f">>, <<"\\u1712">>, <<"\\u1713">>, <<"\\u1714">>,
     <<"\\u1732">>, <<"\\u1733">>, <<"\\u1752">>, <<"\\u1753">>, <<"\\u1772">>, <<"\\u1773">>,
     <<"឴">>, <<"឵">>, <<"ិ">>, <<"ី">>, <<"ឹ">>, <<"ឺ">>, <<"ុ">>, <<"ូ">>, <<"ួ">>, <<"ំ">>,
     <<"៉">>, <<"៊">>, <<"់">>, <<"៌">>, <<"៍">>, <<"៎">>, <<"៏">>, <<"័">>, <<"៑">>, <<"្">>,
     <<"៓">>, <<"ៗ">>, <<"៝">>, <<"\\u180b">>, <<"\\u180c">>, <<"\\u180d">>, <<"\\u180e">>,
     <<"\\u180f">>, <<"\\u1843">>, <<"ᢅ">>, <<"ᢆ">>, <<"ᢩ">>, <<"\\u1920">>, <<"\\u1921">>,
     <<"\\u1922">>, <<"\\u1927">>, <<"\\u1928">>, <<"\\u1932">>, <<"\\u1939">>, <<"\\u193a">>,
     <<"\\u193b">>, <<"\\u1a17">>, <<"\\u1a18">>, <<"\\u1a1b">>, <<"\\u1a56">>, <<"\\u1a58">>,
     <<"\\u1a59">>, <<"\\u1a5a">>, <<"\\u1a5b">>, <<"\\u1a5c">>, <<"\\u1a5d">>, <<"\\u1a5e">>,
     <<"\\u1a60">>, <<"\\u1a62">>, <<"\\u1a65">>, <<"\\u1a66">>, <<"\\u1a67">>, <<"\\u1a68">>,
     <<"\\u1a69">>, <<"\\u1a6a">>, <<"\\u1a6b">>, <<"\\u1a6c">>, <<"\\u1a73">>, <<"\\u1a74">>,
     <<"\\u1a75">>, <<"\\u1a76">>, <<"\\u1a77">>, <<"\\u1a78">>, <<"\\u1a79">>, <<"\\u1a7a">>,
     <<"\\u1a7b">>, <<"\\u1a7c">>, <<"\\u1a7f">>, <<"ᪧ">>, <<"᪰">>, <<"᪱">>, <<"᪲">>, <<"᪳">>,
     <<"᪴">>, <<"᪵">>, <<"᪶">>, <<"᪷">>, <<"᪸">>, <<"᪹">>, <<"᪺">>, <<"᪻">>, <<"᪼">>, <<"᪽">>,
     <<"᪾">>, <<"ᪿ">>, <<"ᫀ">>, <<"᫁">>, <<"᫂">>, <<"᫃">>, <<"᫄">>, <<"᫅">>, <<"᫆">>, <<"᫇">>,
     <<"᫈">>, <<"᫉">>, <<"᫊">>, <<"᫋">>, <<"ᫌ">>, <<"ᫍ">>, <<"ᫎ">>, <<"᫏">>, <<"᫐">>, <<"᫑">>,
     <<"᫒">>, <<"᫓">>, <<"᫔">>, <<"᫕">>, <<"᫖">>, <<"᫗">>, <<"᫘">>, <<"᫙">>, <<"᫚">>, <<"᫛">>,
     <<"᫜">>, <<"᫝">>, <<"᫠">>, <<"᫡">>, <<"᫢">>, <<"᫣">>, <<"᫤">>, <<"᫥">>, <<"᫦">>, <<"᫧">>,
     <<"᫨">>, <<"᫩">>, <<"᫪">>, <<"᫫">>, <<"\\u1b00">>, <<"\\u1b01">>, <<"\\u1b02">>,
     <<"\\u1b03">>, <<"\\u1b34">>, <<"\\u1b36">>, <<"\\u1b37">>, <<"\\u1b38">>, <<"\\u1b39">>,
     <<"\\u1b3a">>, <<"\\u1b3c">>, <<"\\u1b42">>, <<"\\u1b6b">>, <<"\\u1b6c">>, <<"\\u1b6d">>,
     <<"\\u1b6e">>, <<"\\u1b6f">>, <<"\\u1b70">>, <<"\\u1b71">>, <<"\\u1b72">>, <<"\\u1b73">>,
     <<"ᮀ">>, <<"ᮁ">>, <<"ᮢ">>, <<"ᮣ">>, <<"ᮤ">>, <<"ᮥ">>, <<"ᮨ">>, <<"ᮩ">>, <<"᮫">>, <<"ᮬ">>,
     <<"ᮭ">>, <<"᯦">>, <<"ᯨ">>, <<"ᯩ">>, <<"ᯭ">>, <<"ᯯ">>, <<"ᯰ">>, <<"ᯱ">>, <<"\\u1c2c">>,
     <<"\\u1c2d">>, <<"\\u1c2e">>, <<"\\u1c2f">>, <<"\\u1c30">>, <<"\\u1c31">>, <<"\\u1c32">>,
     <<"\\u1c33">>, <<"\\u1c36">>, <<"\\u1c37">>, <<"\\u1c78">>, <<"\\u1c79">>, <<"\\u1c7a">>,
     <<"\\u1c7b">>, <<"\\u1c7c">>, <<"\\u1c7d">>, <<"᳐">>, <<"᳑">>, <<"᳒">>, <<"᳔">>, <<"᳕">>,
     <<"᳖">>, <<"᳗">>, <<"᳘">>, <<"᳙">>, <<"᳚">>, <<"᳛">>, <<"᳜">>, <<"᳝">>, <<"᳞">>, <<"᳟">>,
     <<"᳠">>, <<"᳢">>, <<"᳣">>, <<"᳤">>, <<"᳥">>, <<"᳦">>, <<"᳧">>, <<"᳨">>, <<"᳭">>, <<"᳴">>,
     <<"᳸">>, <<"᳹">>, <<"\\u1d2c">>, <<"\\u1d2d">>, <<"\\u1d2e">>, <<"\\u1d2f">>, <<"\\u1d30">>,
     <<"\\u1d31">>, <<"\\u1d32">>, <<"\\u1d33">>, <<"\\u1d34">>, <<"\\u1d35">>, <<"\\u1d36">>,
     <<"\\u1d37">>, <<"\\u1d38">>, <<"\\u1d39">>, <<"\\u1d3a">>, <<"\\u1d3b">>, <<"\\u1d3c">>,
     <<"\\u1d3d">>, <<"\\u1d3e">>, <<"\\u1d3f">>, <<"\\u1d40">>, <<"\\u1d41">>, <<"\\u1d42">>,
     <<"\\u1d43">>, <<"\\u1d44">>, <<"\\u1d45">>, <<"\\u1d46">>, <<"\\u1d47">>, <<"\\u1d48">>,
     <<"\\u1d49">>, <<"\\u1d4a">>, <<"\\u1d4b">>, <<"\\u1d4c">>, <<"\\u1d4d">>, <<"\\u1d4e">>,
     <<"\\u1d4f">>, <<"\\u1d50">>, <<"\\u1d51">>, <<"\\u1d52">>, <<"\\u1d53">>, <<"\\u1d54">>,
     <<"\\u1d55">>, <<"\\u1d56">>, <<"\\u1d57">>, <<"\\u1d58">>, <<"\\u1d59">>, <<"\\u1d5a">>,
     <<"\\u1d5b">>, <<"\\u1d5c">>, <<"\\u1d5d">>, <<"\\u1d5e">>, <<"\\u1d5f">>, <<"\\u1d60">>,
     <<"\\u1d61">>, <<"\\u1d62">>, <<"\\u1d63">>, <<"\\u1d64">>, <<"\\u1d65">>, <<"\\u1d66">>,
     <<"\\u1d67">>, <<"\\u1d68">>, <<"\\u1d69">>, <<"\\u1d6a">>, <<"\\u1d78">>, <<"ᶛ">>, <<"ᶜ">>,
     <<"ᶝ">>, <<"ᶞ">>, <<"ᶟ">>, <<"ᶠ">>, <<"ᶡ">>, <<"ᶢ">>, <<"ᶣ">>, <<"ᶤ">>, <<"ᶥ">>, <<"ᶦ">>,
     <<"ᶧ">>, <<"ᶨ">>, <<"ᶩ">>, <<"ᶪ">>, <<"ᶫ">>, <<"ᶬ">>, <<"ᶭ">>, <<"ᶮ">>, <<"ᶯ">>, <<"ᶰ">>,
     <<"ᶱ">>, <<"ᶲ">>, <<"ᶳ">>, <<"ᶴ">>, <<"ᶵ">>, <<"ᶶ">>, <<"ᶷ">>, <<"ᶸ">>, <<"ᶹ">>, <<"ᶺ">>,
     <<"ᶻ">>, <<"ᶼ">>, <<"ᶽ">>, <<"ᶾ">>, <<"ᶿ">>, <<"᷀">>, <<"᷁">>, <<"᷂">>, <<"᷃">>, <<"᷄">>,
     <<"᷅">>, <<"᷆">>, <<"᷇">>, <<"᷈">>, <<"᷉">>, <<"᷊">>, <<"᷋">>, <<"᷌">>, <<"᷍">>, <<"᷎">>,
     <<"᷏">>, <<"᷐">>, <<"᷑">>, <<"᷒">>, <<"ᷓ">>, <<"ᷔ">>, <<"ᷕ">>, <<"ᷖ">>, <<"ᷗ">>, <<"ᷘ">>,
     <<"ᷙ">>, <<"ᷚ">>, <<"ᷛ">>, <<"ᷜ">>, <<"ᷝ">>, <<"ᷞ">>, <<"ᷟ">>, <<"ᷠ">>, <<"ᷡ">>, <<"ᷢ">>,
     <<"ᷣ">>, <<"ᷤ">>, <<"ᷥ">>, <<"ᷦ">>, <<"ᷧ">>, <<"ᷨ">>, <<"ᷩ">>, <<"ᷪ">>, <<"ᷫ">>, <<"ᷬ">>,
     <<"ᷭ">>, <<"ᷮ">>, <<"ᷯ">>, <<"ᷰ">>, <<"ᷱ">>, <<"ᷲ">>, <<"ᷳ">>, <<"ᷴ">>, <<"᷵">>, <<"᷶">>,
     <<"᷷">>, <<"᷸">>, <<"᷹">>, <<"᷺">>, <<"᷻">>, <<"᷼">>, <<"᷽">>, <<"᷾">>, <<"᷿">>, <<"᾽">>,
     <<"᾿">>, <<"῀">>, <<"῁">>, <<"῍">>, <<"῎">>, <<"῏">>, <<"῝">>, <<"῞">>, <<"῟">>, <<"῭">>,
     <<"΅">>, <<"`">>, <<"´">>, <<"῾">>, <<"\\u200b">>, <<"\\u200c">>, <<"\\u200d">>,
     <<"\\u200e">>, <<"\\u200f">>, <<"\\u2018">>, <<"\\u2019">>, <<"\\u2024">>, <<"\\u2027">>,
     <<"\\u202a">>, <<"\\u202b">>, <<"\\u202c">>, <<"\\u202d">>, <<"\\u202e">>, <<"\\u2060">>,
     <<"\\u2061">>, <<"\\u2062">>, <<"\\u2063">>, <<"\\u2064">>, <<"\\u2066">>, <<"\\u2067">>,
     <<"\\u2068">>, <<"\\u2069">>, <<"\\u206a">>, <<"\\u206b">>, <<"\\u206c">>, <<"\\u206d">>,
     <<"\\u206e">>, <<"\\u206f">>, <<"\\u2071">>, <<"\\u207f">>, <<"ₐ">>, <<"ₑ">>, <<"ₒ">>,
     <<"ₓ">>, <<"ₔ">>, <<"ₕ">>, <<"ₖ">>, <<"ₗ">>, <<"ₘ">>, <<"ₙ">>, <<"ₚ">>, <<"ₛ">>, <<"ₜ">>,
     <<"⃐">>, <<"⃑">>, <<"⃒">>, <<"⃓">>, <<"⃔">>, <<"⃕">>, <<"⃖">>, <<"⃗">>, <<"⃘">>, <<"⃙">>,
     <<"⃚">>, <<"⃛">>, <<"⃜">>, <<"⃝">>, <<"⃞">>, <<"⃟">>, <<"⃠">>, <<"⃡">>, <<"⃢">>, <<"⃣">>,
     <<"⃤">>, <<"⃥">>, <<"⃦">>, <<"⃧">>, <<"⃨">>, <<"⃩">>, <<"⃪">>, <<"⃫">>, <<"⃬">>, <<"⃭">>,
     <<"⃮">>, <<"⃯">>, <<"⃰">>, <<"\\u2c7c">>, <<"\\u2c7d">>, <<"⳯">>, <<"⳰">>, <<"⳱">>,
     <<"\\u2d6f">>, <<"\\u2d7f">>, <<"ⷠ">>, <<"ⷡ">>, <<"ⷢ">>, <<"ⷣ">>, <<"ⷤ">>, <<"ⷥ">>, <<"ⷦ">>,
     <<"ⷧ">>, <<"ⷨ">>, <<"ⷩ">>, <<"ⷪ">>, <<"ⷫ">>, <<"ⷬ">>, <<"ⷭ">>, <<"ⷮ">>, <<"ⷯ">>, <<"ⷰ">>,
     <<"ⷱ">>, <<"ⷲ">>, <<"ⷳ">>, <<"ⷴ">>, <<"ⷵ">>, <<"ⷶ">>, <<"ⷷ">>, <<"ⷸ">>, <<"ⷹ">>, <<"ⷺ">>,
     <<"ⷻ">>, <<"ⷼ">>, <<"ⷽ">>, <<"ⷾ">>, <<"ⷿ">>, <<"\\u2e2f">>, <<"\\u3005">>, <<"\\u302a">>,
     <<"\\u302b">>, <<"\\u302c">>, <<"\\u302d">>, <<"\\u3031">>, <<"\\u3032">>, <<"\\u3033">>,
     <<"\\u3034">>, <<"\\u3035">>, <<"\\u303b">>, <<"゙">>, <<"゚">>, <<"゛">>, <<"゜">>, <<"ゝ">>,
     <<"ゞ">>, <<"ー">>, <<"ヽ">>, <<"ヾ">>, <<"\\ua015">>, <<"ꓸ">>, <<"ꓹ">>, <<"ꓺ">>, <<"ꓻ">>,
     <<"ꓼ">>, <<"ꓽ">>, <<"\\ua60c">>, <<"\\ua66f">>, <<"\\ua670">>, <<"\\ua671">>, <<"\\ua672">>,
     <<"\\ua674">>, <<"\\ua675">>, <<"\\ua676">>, <<"\\ua677">>, <<"\\ua678">>, <<"\\ua679">>,
     <<"\\ua67a">>, <<"\\ua67b">>, <<"\\ua67c">>, <<"\\ua67d">>, <<"\\ua67f">>, <<"ꚜ">>, <<"ꚝ">>,
     <<"ꚞ">>, <<"ꚟ">>, <<"꛰">>, <<"꛱">>, <<"\\ua700">>, <<"\\ua701">>, <<"\\ua702">>,
     <<"\\ua703">>, <<"\\ua704">>, <<"\\ua705">>, <<"\\ua706">>, <<"\\ua707">>, <<"\\ua708">>,
     <<"\\ua709">>, <<"\\ua70a">>, <<"\\ua70b">>, <<"\\ua70c">>, <<"\\ua70d">>, <<"\\ua70e">>,
     <<"\\ua70f">>, <<"\\ua710">>, <<"\\ua711">>, <<"\\ua712">>, <<"\\ua713">>, <<"\\ua714">>,
     <<"\\ua715">>, <<"\\ua716">>, <<"\\ua717">>, <<"\\ua718">>, <<"\\ua719">>, <<"\\ua71a">>,
     <<"\\ua71b">>, <<"\\ua71c">>, <<"\\ua71d">>, <<"\\ua71e">>, <<"\\ua71f">>, <<"\\ua720">>,
     <<"\\ua721">>, <<"\\ua770">>, <<"ꞈ">>, <<"꞉">>, <<"꞊">>, <<"꟱">>, <<"ꟲ">>, <<"ꟳ">>, <<"ꟴ">>,
     <<"ꟸ">>, <<"ꟹ">>, <<"\\ua802">>, <<"\\ua806">>, <<"\\ua80b">>, <<"\\ua825">>, <<"\\ua826">>,
     <<"\\ua82c">>, <<"꣄">>, <<"ꣅ">>, <<"꣠">>, <<"꣡">>, <<"꣢">>, <<"꣣">>, <<"꣤">>, <<"꣥">>,
     <<"꣦">>, <<"꣧">>, <<"꣨">>, <<"꣩">>, <<"꣪">>, <<"꣫">>, <<"꣬">>, <<"꣭">>, <<"꣮">>, <<"꣯">>,
     <<"꣰">>, <<"꣱">>, <<"ꣿ">>, <<"\\ua926">>, <<"\\ua927">>, <<"\\ua928">>, <<"\\ua929">>,
     <<"\\ua92a">>, <<"\\ua92b">>, <<"\\ua92c">>, <<"\\ua92d">>, <<"\\ua947">>, <<"\\ua948">>,
     <<"\\ua949">>, <<"\\ua94a">>, <<"\\ua94b">>, <<"\\ua94c">>, <<"\\ua94d">>, <<"\\ua94e">>,
     <<"\\ua94f">>, <<"\\ua950">>, <<"\\ua951">>, <<"ꦀ">>, <<"ꦁ">>, <<"ꦂ">>, <<"꦳">>, <<"ꦶ">>,
     <<"ꦷ">>, <<"ꦸ">>, <<"ꦹ">>, <<"ꦼ">>, <<"ꦽ">>, <<"ꧏ">>, <<"ꧥ">>, <<"ꧦ">>, <<"\\uaa29">>,
     <<"\\uaa2a">>, <<"\\uaa2b">>, <<"\\uaa2c">>, <<"\\uaa2d">>, <<"\\uaa2e">>, <<"\\uaa31">>,
     <<"\\uaa32">>, <<"\\uaa35">>, <<"\\uaa36">>, <<"\\uaa43">>, <<"\\uaa4c">>, <<"\\uaa70">>,
     <<"\\uaa7c">>, <<"ꪰ">>, <<"ꪲ">>, <<"ꪳ">>, <<"ꪴ">>, <<"ꪷ">>, <<"ꪸ">>, <<"ꪾ">>, <<"꪿">>,
     <<"꫁">>, <<"ꫝ">>, <<"ꫬ">>, <<"ꫭ">>, <<"ꫳ">>, <<"ꫴ">>, <<"꫶">>, <<"\\uab5b">>, <<"\\uab5c">>,
     <<"\\uab5d">>, <<"\\uab5e">>, <<"\\uab5f">>, <<"\\uab69">>, <<"\\uab6a">>, <<"\\uab6b">>,
     <<"ꯥ">>, <<"ꯨ">>, <<"꯭">>, <<"\\ufb1e">>, <<"﮲">>, <<"﮳">>, <<"﮴">>, <<"﮵">>, <<"﮶">>,
     <<"﮷">>, <<"﮸">>, <<"﮹">>, <<"﮺">>, <<"﮻">>, <<"﮼">>, <<"﮽">>, <<"﮾">>, <<"﮿">>, <<"﯀">>,
     <<"﯁">>, <<"﯂">>, <<"\\ufe00">>, <<"\\ufe01">>, <<"\\ufe02">>, <<"\\ufe03">>, <<"\\ufe04">>,
     <<"\\ufe05">>, <<"\\ufe06">>, <<"\\ufe07">>, <<"\\ufe08">>, <<"\\ufe09">>, <<"\\ufe0a">>,
     <<"\\ufe0b">>, <<"\\ufe0c">>, <<"\\ufe0d">>, <<"\\ufe0e">>, <<"\\ufe0f">>, <<"\\ufe13">>,
     <<"\\ufe20">>, <<"\\ufe21">>, <<"\\ufe22">>, <<"\\ufe23">>, <<"\\ufe24">>, <<"\\ufe25">>,
     <<"\\ufe26">>, <<"\\ufe27">>, <<"\\ufe28">>, <<"\\ufe29">>, <<"\\ufe2a">>, <<"\\ufe2b">>,
     <<"\\ufe2c">>, <<"\\ufe2d">>, <<"\\ufe2e">>, <<"\\ufe2f">>, <<"\\ufe52">>, <<"\\ufe55">>,
     <<"﻿">>, <<"\\uff07">>, <<"\\uff0e">>, <<"\\uff1a">>, <<"\\uff3e">>, <<"\\uff40">>,
     <<"\\uff70">>, <<"ﾞ">>, <<"ﾟ">>, <<"￣">>, <<"￹">>, <<"￺">>, <<"￻">>,
     <<"\\ud800", "\\uddfd">>, <<"\\ud800", "\\udee0">>, <<"\\ud800", "\\udf76">>,
     <<"\\ud800", "\\udf77">>, <<"\\ud800", "\\udf78">>, <<"\\ud800", "\\udf79">>,
     <<"\\ud800", "\\udf7a">>, <<"\\ud801", "\\udf80">>, <<"\\ud801", "\\udf81">>,
     <<"\\ud801", "\\udf82">>, <<"\\ud801", "\\udf83">>, <<"\\ud801", "\\udf84">>,
     <<"\\ud801", "\\udf85">>, <<"\\ud801", "\\udf87">>, <<"\\ud801", "\\udf88">>,
     <<"\\ud801", "\\udf89">>, <<"\\ud801", "\\udf8a">>, <<"\\ud801", "\\udf8b">>,
     <<"\\ud801", "\\udf8c">>, <<"\\ud801", "\\udf8d">>, <<"\\ud801", "\\udf8e">>,
     <<"\\ud801", "\\udf8f">>, <<"\\ud801", "\\udf90">>, <<"\\ud801", "\\udf91">>,
     <<"\\ud801", "\\udf92">>, <<"\\ud801", "\\udf93">>, <<"\\ud801", "\\udf94">>,
     <<"\\ud801", "\\udf95">>, <<"\\ud801", "\\udf96">>, <<"\\ud801", "\\udf97">>,
     <<"\\ud801", "\\udf98">>, <<"\\ud801", "\\udf99">>, <<"\\ud801", "\\udf9a">>,
     <<"\\ud801", "\\udf9b">>, <<"\\ud801", "\\udf9c">>, <<"\\ud801", "\\udf9d">>,
     <<"\\ud801", "\\udf9e">>, <<"\\ud801", "\\udf9f">>, <<"\\ud801", "\\udfa0">>,
     <<"\\ud801", "\\udfa1">>, <<"\\ud801", "\\udfa2">>, <<"\\ud801", "\\udfa3">>,
     <<"\\ud801", "\\udfa4">>, <<"\\ud801", "\\udfa5">>, <<"\\ud801", "\\udfa6">>,
     <<"\\ud801", "\\udfa7">>, <<"\\ud801", "\\udfa8">>, <<"\\ud801", "\\udfa9">>,
     <<"\\ud801", "\\udfaa">>, <<"\\ud801", "\\udfab">>, <<"\\ud801", "\\udfac">>,
     <<"\\ud801", "\\udfad">>, <<"\\ud801", "\\udfae">>, <<"\\ud801", "\\udfaf">>,
     <<"\\ud801", "\\udfb0">>, <<"\\ud801", "\\udfb2">>, <<"\\ud801", "\\udfb3">>,
     <<"\\ud801", "\\udfb4">>, <<"\\ud801", "\\udfb5">>, <<"\\ud801", "\\udfb6">>,
     <<"\\ud801", "\\udfb7">>, <<"\\ud801", "\\udfb8">>, <<"\\ud801", "\\udfb9">>,
     <<"\\ud801", "\\udfba">>, <<"\\ud802", "\\ude01">>, <<"\\ud802", "\\ude02">>,
     <<"\\ud802", "\\ude03">>, <<"\\ud802", "\\ude05">>, <<"\\ud802", "\\ude06">>,
     <<"\\ud802", "\\ude0c">>, <<"\\ud802", "\\ude0d">>, <<"\\ud802", "\\ude0e">>,
     <<"\\ud802", "\\ude0f">>, <<"\\ud802", "\\ude38">>, <<"\\ud802", "\\ude39">>,
     <<"\\ud802", "\\ude3a">>, <<"\\ud802", "\\ude3f">>, <<"\\ud802", "\\udee5">>,
     <<"\\ud802", "\\udee6">>, <<"\\ud803", "\\udd24">>, <<"\\ud803", "\\udd25">>,
     <<"\\ud803", "\\udd26">>, <<"\\ud803", "\\udd27">>, <<"\\ud803", "\\udd4e">>,
     <<"\\ud803", "\\udd69">>, <<"\\ud803", "\\udd6a">>, <<"\\ud803", "\\udd6b">>,
     <<"\\ud803", "\\udd6c">>, <<"\\ud803", "\\udd6d">>, <<"\\ud803", "\\udd6f">>,
     <<"\\ud803", "\\udeab">>, <<"\\ud803", "\\udeac">>, <<"\\ud803", "\\udec5">>,
     <<"\\ud803", "\\udefa">>, <<"\\ud803", "\\udefb">>, <<"\\ud803", "\\udefc">>,
     <<"\\ud803", "\\udefd">>, <<"\\ud803", "\\udefe">>, <<"\\ud803", "\\udeff">>,
     <<"\\ud803", "\\udf46">>, <<"\\ud803", "\\udf47">>, <<"\\ud803", "\\udf48">>,
     <<"\\ud803", "\\udf49">>, <<"\\ud803", "\\udf4a">>, <<"\\ud803", "\\udf4b">>,
     <<"\\ud803", "\\udf4c">>, <<"\\ud803", "\\udf4d">>, <<"\\ud803", "\\udf4e">>,
     <<"\\ud803", "\\udf4f">>, <<"\\ud803", "\\udf50">>, <<"\\ud803", "\\udf82">>,
     <<"\\ud803", "\\udf83">>, <<"\\ud803", "\\udf84">>, <<"\\ud803", "\\udf85">>,
     <<"\\ud804", "\\udc01">>, <<"\\ud804", "\\udc38">>, <<"\\ud804", "\\udc39">>,
     <<"\\ud804", "\\udc3a">>, <<"\\ud804", "\\udc3b">>, <<"\\ud804", "\\udc3c">>,
     <<"\\ud804", "\\udc3d">>, <<"\\ud804", "\\udc3e">>, <<"\\ud804", "\\udc3f">>,
     <<"\\ud804", "\\udc40">>, <<"\\ud804", "\\udc41">>, <<"\\ud804", "\\udc42">>,
     <<"\\ud804", "\\udc43">>, <<"\\ud804", "\\udc44">>, <<"\\ud804", "\\udc45">>,
     <<"\\ud804", "\\udc46">>, <<"\\ud804", "\\udc70">>, <<"\\ud804", "\\udc73">>,
     <<"\\ud804", "\\udc74">>, <<"\\ud804", "\\udc7f">>, <<"\\ud804", "\\udc80">>,
     <<"\\ud804", "\\udc81">>, <<"\\ud804", "\\udcb3">>, <<"\\ud804", "\\udcb4">>,
     <<"\\ud804", "\\udcb5">>, <<"\\ud804", "\\udcb6">>, <<"\\ud804", "\\udcb9">>,
     <<"\\ud804", "\\udcba">>, <<"\\ud804", "\\udcbd">>, <<"\\ud804", "\\udcc2">>,
     <<"\\ud804", "\\udccd">>, <<"\\ud804", "\\udd00">>, <<"\\ud804", "\\udd01">>,
     <<"\\ud804", "\\udd02">>, <<"\\ud804", "\\udd27">>, <<"\\ud804", "\\udd28">>,
     <<"\\ud804", "\\udd29">>, <<"\\ud804", "\\udd2a">>, <<"\\ud804", "\\udd2b">>,
     <<"\\ud804", "\\udd2d">>, <<"\\ud804", "\\udd2e">>, <<"\\ud804", "\\udd2f">>,
     <<"\\ud804", "\\udd30">>, <<"\\ud804", "\\udd31">>, <<"\\ud804", "\\udd32">>,
     <<"\\ud804", "\\udd33">>, <<"\\ud804", "\\udd34">>, <<"\\ud804", "\\udd73">>,
     <<"\\ud804", "\\udd80">>, <<"\\ud804", "\\udd81">>, <<"\\ud804", "\\uddb6">>,
     <<"\\ud804", "\\uddb7">>, <<"\\ud804", "\\uddb8">>, <<"\\ud804", "\\uddb9">>,
     <<"\\ud804", "\\uddba">>, <<"\\ud804", "\\uddbb">>, <<"\\ud804", "\\uddbc">>,
     <<"\\ud804", "\\uddbd">>, <<"\\ud804", "\\uddbe">>, <<"\\ud804", "\\uddc9">>,
     <<"\\ud804", "\\uddca">>, <<"\\ud804", "\\uddcb">>, <<"\\ud804", "\\uddcc">>,
     <<"\\ud804", "\\uddcf">>, <<"\\ud804", "\\ude2f">>, <<"\\ud804", "\\ude30">>,
     <<"\\ud804", "\\ude31">>, <<"\\ud804", "\\ude34">>, <<"\\ud804", "\\ude36">>,
     <<"\\ud804", "\\ude37">>, <<"\\ud804", "\\ude3e">>, <<"\\ud804", "\\ude41">>,
     <<"\\ud804", "\\udedf">>, <<"\\ud804", "\\udee3">>, <<"\\ud804", "\\udee4">>,
     <<"\\ud804", "\\udee5">>, <<"\\ud804", "\\udee6">>, <<"\\ud804", "\\udee7">>,
     <<"\\ud804", "\\udee8">>, <<"\\ud804", "\\udee9">>, <<"\\ud804", "\\udeea">>,
     <<"\\ud804", "\\udf00">>, <<"\\ud804", "\\udf01">>, <<"\\ud804", "\\udf3b">>,
     <<"\\ud804", "\\udf3c">>, <<"\\ud804", "\\udf40">>, <<"\\ud804", "\\udf66">>,
     <<"\\ud804", "\\udf67">>, <<"\\ud804", "\\udf68">>, <<"\\ud804", "\\udf69">>,
     <<"\\ud804", "\\udf6a">>, <<"\\ud804", "\\udf6b">>, <<"\\ud804", "\\udf6c">>,
     <<"\\ud804", "\\udf70">>, <<"\\ud804", "\\udf71">>, <<"\\ud804", "\\udf72">>,
     <<"\\ud804", "\\udf73">>, <<"\\ud804", "\\udf74">>, <<"\\ud804", "\\udfbb">>,
     <<"\\ud804", "\\udfbc">>, <<"\\ud804", "\\udfbd">>, <<"\\ud804", "\\udfbe">>,
     <<"\\ud804", "\\udfbf">>, <<"\\ud804", "\\udfc0">>, <<"\\ud804", "\\udfce">>,
     <<"\\ud804", "\\udfd0">>, <<"\\ud804", "\\udfd2">>, <<"\\ud804", "\\udfe1">>,
     <<"\\ud804", "\\udfe2">>, <<"\\ud805", "\\udc38">>, <<"\\ud805", "\\udc39">>,
     <<"\\ud805", "\\udc3a">>, <<"\\ud805", "\\udc3b">>, <<"\\ud805", "\\udc3c">>,
     <<"\\ud805", "\\udc3d">>, <<"\\ud805", "\\udc3e">>, <<"\\ud805", "\\udc3f">>,
     <<"\\ud805", "\\udc42">>, <<"\\ud805", "\\udc43">>, <<"\\ud805", "\\udc44">>,
     <<"\\ud805", "\\udc46">>, <<"\\ud805", "\\udc5e">>, <<"\\ud805", "\\udcb3">>,
     <<"\\ud805", "\\udcb4">>, <<"\\ud805", "\\udcb5">>, <<"\\ud805", "\\udcb6">>,
     <<"\\ud805", "\\udcb7">>, <<"\\ud805", "\\udcb8">>, <<"\\ud805", "\\udcba">>,
     <<"\\ud805", "\\udcbf">>, <<"\\ud805", "\\udcc0">>, <<"\\ud805", "\\udcc2">>,
     <<"\\ud805", "\\udcc3">>, <<"\\ud805", "\\uddb2">>, <<"\\ud805", "\\uddb3">>,
     <<"\\ud805", "\\uddb4">>, <<"\\ud805", "\\uddb5">>, <<"\\ud805", "\\uddbc">>,
     <<"\\ud805", "\\uddbd">>, <<"\\ud805", "\\uddbf">>, <<"\\ud805", "\\uddc0">>,
     <<"\\ud805", "\\udddc">>, <<"\\ud805", "\\udddd">>, <<"\\ud805", "\\ude33">>,
     <<"\\ud805", "\\ude34">>, <<"\\ud805", "\\ude35">>, <<"\\ud805", "\\ude36">>,
     <<"\\ud805", "\\ude37">>, <<"\\ud805", "\\ude38">>, <<"\\ud805", "\\ude39">>,
     <<"\\ud805", "\\ude3a">>, <<"\\ud805", "\\ude3d">>, <<"\\ud805", "\\ude3f">>,
     <<"\\ud805", "\\ude40">>, <<"\\ud805", "\\udeab">>, <<"\\ud805", "\\udead">>,
     <<"\\ud805", "\\udeb0">>, <<"\\ud805", "\\udeb1">>, <<"\\ud805", "\\udeb2">>,
     <<"\\ud805", "\\udeb3">>, <<"\\ud805", "\\udeb4">>, <<"\\ud805", "\\udeb5">>,
     <<"\\ud805", "\\udeb7">>, <<"\\ud805", "\\udf1d">>, <<"\\ud805", "\\udf1f">>,
     <<"\\ud805", "\\udf22">>, <<"\\ud805", "\\udf23">>, <<"\\ud805", "\\udf24">>,
     <<"\\ud805", "\\udf25">>, <<"\\ud805", "\\udf27">>, <<"\\ud805", "\\udf28">>,
     <<"\\ud805", "\\udf29">>, <<"\\ud805", "\\udf2a">>, <<"\\ud805", "\\udf2b">>,
     <<"\\ud806", "\\udc2f">>, <<"\\ud806", "\\udc30">>, <<"\\ud806", "\\udc31">>,
     <<"\\ud806", "\\udc32">>, <<"\\ud806", "\\udc33">>, <<"\\ud806", "\\udc34">>,
     <<"\\ud806", "\\udc35">>, <<"\\ud806", "\\udc36">>, <<"\\ud806", "\\udc37">>,
     <<"\\ud806", "\\udc39">>, <<"\\ud806", "\\udc3a">>, <<"\\ud806", "\\udd3b">>,
     <<"\\ud806", "\\udd3c">>, <<"\\ud806", "\\udd3e">>, <<"\\ud806", "\\udd43">>,
     <<"\\ud806", "\\uddd4">>, <<"\\ud806", "\\uddd5">>, <<"\\ud806", "\\uddd6">>,
     <<"\\ud806", "\\uddd7">>, <<"\\ud806", "\\uddda">>, <<"\\ud806", "\\udddb">>,
     <<"\\ud806", "\\udde0">>, <<"\\ud806", "\\ude01">>, <<"\\ud806", "\\ude02">>,
     <<"\\ud806", "\\ude03">>, <<"\\ud806", "\\ude04">>, <<"\\ud806", "\\ude05">>,
     <<"\\ud806", "\\ude06">>, <<"\\ud806", "\\ude07">>, <<"\\ud806", "\\ude08">>,
     <<"\\ud806", "\\ude09">>, <<"\\ud806", "\\ude0a">>, <<"\\ud806", "\\ude33">>,
     <<"\\ud806", "\\ude34">>, <<"\\ud806", "\\ude35">>, <<"\\ud806", "\\ude36">>,
     <<"\\ud806", "\\ude37">>, <<"\\ud806", "\\ude38">>, <<"\\ud806", "\\ude3b">>,
     <<"\\ud806", "\\ude3c">>, <<"\\ud806", "\\ude3d">>, <<"\\ud806", "\\ude3e">>,
     <<"\\ud806", "\\ude47">>, <<"\\ud806", "\\ude51">>, <<"\\ud806", "\\ude52">>,
     <<"\\ud806", "\\ude53">>, <<"\\ud806", "\\ude54">>, <<"\\ud806", "\\ude55">>,
     <<"\\ud806", "\\ude56">>, <<"\\ud806", "\\ude59">>, <<"\\ud806", "\\ude5a">>,
     <<"\\ud806", "\\ude5b">>, <<"\\ud806", "\\ude8a">>, <<"\\ud806", "\\ude8b">>,
     <<"\\ud806", "\\ude8c">>, <<"\\ud806", "\\ude8d">>, <<"\\ud806", "\\ude8e">>,
     <<"\\ud806", "\\ude8f">>, <<"\\ud806", "\\ude90">>, <<"\\ud806", "\\ude91">>,
     <<"\\ud806", "\\ude92">>, <<"\\ud806", "\\ude93">>, <<"\\ud806", "\\ude94">>,
     <<"\\ud806", "\\ude95">>, <<"\\ud806", "\\ude96">>, <<"\\ud806", "\\ude98">>,
     <<"\\ud806", "\\ude99">>, <<"\\ud806", "\\udf60">>, <<"\\ud806", "\\udf62">>,
     <<"\\ud806", "\\udf63">>, <<"\\ud806", "\\udf64">>, <<"\\ud806", "\\udf66">>,
     <<"\\ud807", "\\udc30">>, <<"\\ud807", "\\udc31">>, <<"\\ud807", "\\udc32">>,
     <<"\\ud807", "\\udc33">>, <<"\\ud807", "\\udc34">>, <<"\\ud807", "\\udc35">>,
     <<"\\ud807", "\\udc36">>, <<"\\ud807", "\\udc38">>, <<"\\ud807", "\\udc39">>,
     <<"\\ud807", "\\udc3a">>, <<"\\ud807", "\\udc3b">>, <<"\\ud807", "\\udc3c">>,
     <<"\\ud807", "\\udc3d">>, <<"\\ud807", "\\udc3f">>, <<"\\ud807", "\\udc92">>,
     <<"\\ud807", "\\udc93">>, <<"\\ud807", "\\udc94">>, <<"\\ud807", "\\udc95">>,
     <<"\\ud807", "\\udc96">>, <<"\\ud807", "\\udc97">>, <<"\\ud807", "\\udc98">>,
     <<"\\ud807", "\\udc99">>, <<"\\ud807", "\\udc9a">>, <<"\\ud807", "\\udc9b">>,
     <<"\\ud807", "\\udc9c">>, <<"\\ud807", "\\udc9d">>, <<"\\ud807", "\\udc9e">>,
     <<"\\ud807", "\\udc9f">>, <<"\\ud807", "\\udca0">>, <<"\\ud807", "\\udca1">>,
     <<"\\ud807", "\\udca2">>, <<"\\ud807", "\\udca3">>, <<"\\ud807", "\\udca4">>,
     <<"\\ud807", "\\udca5">>, <<"\\ud807", "\\udca6">>, <<"\\ud807", "\\udca7">>,
     <<"\\ud807", "\\udcaa">>, <<"\\ud807", "\\udcab">>, <<"\\ud807", "\\udcac">>,
     <<"\\ud807", "\\udcad">>, <<"\\ud807", "\\udcae">>, <<"\\ud807", "\\udcaf">>,
     <<"\\ud807", "\\udcb0">>, <<"\\ud807", "\\udcb2">>, <<"\\ud807", "\\udcb3">>,
     <<"\\ud807", "\\udcb5">>, <<"\\ud807", "\\udcb6">>, <<"\\ud807", "\\udd31">>,
     <<"\\ud807", "\\udd32">>, <<"\\ud807", "\\udd33">>, <<"\\ud807", "\\udd34">>,
     <<"\\ud807", "\\udd35">>, <<"\\ud807", "\\udd36">>, <<"\\ud807", "\\udd3a">>,
     <<"\\ud807", "\\udd3c">>, <<"\\ud807", "\\udd3d">>, <<"\\ud807", "\\udd3f">>,
     <<"\\ud807", "\\udd40">>, <<"\\ud807", "\\udd41">>, <<"\\ud807", "\\udd42">>,
     <<"\\ud807", "\\udd43">>, <<"\\ud807", "\\udd44">>, <<"\\ud807", "\\udd45">>,
     <<"\\ud807", "\\udd47">>, <<"\\ud807", "\\udd90">>, <<"\\ud807", "\\udd91">>,
     <<"\\ud807", "\\udd95">>, <<"\\ud807", "\\udd97">>, <<"\\ud807", "\\uddd9">>,
     <<"\\ud807", "\\udef3">>, <<"\\ud807", "\\udef4">>, <<"\\ud807", "\\udf00">>,
     <<"\\ud807", "\\udf01">>, <<"\\ud807", "\\udf36">>, <<"\\ud807", "\\udf37">>,
     <<"\\ud807", "\\udf38">>, <<"\\ud807", "\\udf39">>, <<"\\ud807", "\\udf3a">>,
     <<"\\ud807", "\\udf40">>, <<"\\ud807", "\\udf42">>, <<"\\ud807", "\\udf5a">>,
     <<"\\ud80d", "\\udc30">>, <<"\\ud80d", "\\udc31">>, <<"\\ud80d", "\\udc32">>,
     <<"\\ud80d", "\\udc33">>, <<"\\ud80d", "\\udc34">>, <<"\\ud80d", "\\udc35">>,
     <<"\\ud80d", "\\udc36">>, <<"\\ud80d", "\\udc37">>, <<"\\ud80d", "\\udc38">>,
     <<"\\ud80d", "\\udc39">>, <<"\\ud80d", "\\udc3a">>, <<"\\ud80d", "\\udc3b">>,
     <<"\\ud80d", "\\udc3c">>, <<"\\ud80d", "\\udc3d">>, <<"\\ud80d", "\\udc3e">>,
     <<"\\ud80d", "\\udc3f">>, <<"\\ud80d", "\\udc40">>, <<"\\ud80d", "\\udc47">>,
     <<"\\ud80d", "\\udc48">>, <<"\\ud80d", "\\udc49">>, <<"\\ud80d", "\\udc4a">>,
     <<"\\ud80d", "\\udc4b">>, <<"\\ud80d", "\\udc4c">>, <<"\\ud80d", "\\udc4d">>,
     <<"\\ud80d", "\\udc4e">>, <<"\\ud80d", "\\udc4f">>, <<"\\ud80d", "\\udc50">>,
     <<"\\ud80d", "\\udc51">>, <<"\\ud80d", "\\udc52">>, <<"\\ud80d", "\\udc53">>,
     <<"\\ud80d", "\\udc54">>, <<"\\ud80d", "\\udc55">>, <<"\\ud818", "\\udd1e">>,
     <<"\\ud818", "\\udd1f">>, <<"\\ud818", "\\udd20">>, <<"\\ud818", "\\udd21">>,
     <<"\\ud818", "\\udd22">>, <<"\\ud818", "\\udd23">>, <<"\\ud818", "\\udd24">>,
     <<"\\ud818", "\\udd25">>, <<"\\ud818", "\\udd26">>, <<"\\ud818", "\\udd27">>,
     <<"\\ud818", "\\udd28">>, <<"\\ud818", "\\udd29">>, <<"\\ud818", "\\udd2d">>,
     <<"\\ud818", "\\udd2e">>, <<"\\ud818", "\\udd2f">>, <<"\\ud81a", "\\udef0">>,
     <<"\\ud81a", "\\udef1">>, <<"\\ud81a", "\\udef2">>, <<"\\ud81a", "\\udef3">>,
     <<"\\ud81a", "\\udef4">>, <<"\\ud81a", "\\udf30">>, <<"\\ud81a", "\\udf31">>,
     <<"\\ud81a", "\\udf32">>, <<"\\ud81a", "\\udf33">>, <<"\\ud81a", "\\udf34">>,
     <<"\\ud81a", "\\udf35">>, <<"\\ud81a", "\\udf36">>, <<"\\ud81a", "\\udf40">>,
     <<"\\ud81a", "\\udf41">>, <<"\\ud81a", "\\udf42">>, <<"\\ud81a", "\\udf43">>,
     <<"\\ud81b", "\\udd40">>, <<"\\ud81b", "\\udd41">>, <<"\\ud81b", "\\udd42">>,
     <<"\\ud81b", "\\udd6b">>, <<"\\ud81b", "\\udd6c">>, <<"\\ud81b", "\\udf4f">>,
     <<"\\ud81b", "\\udf8f">>, <<"\\ud81b", "\\udf90">>, <<"\\ud81b", "\\udf91">>,
     <<"\\ud81b", "\\udf92">>, <<"\\ud81b", "\\udf93">>, <<"\\ud81b", "\\udf94">>,
     <<"\\ud81b", "\\udf95">>, <<"\\ud81b", "\\udf96">>, <<"\\ud81b", "\\udf97">>,
     <<"\\ud81b", "\\udf98">>, <<"\\ud81b", "\\udf99">>, <<"\\ud81b", "\\udf9a">>,
     <<"\\ud81b", "\\udf9b">>, <<"\\ud81b", "\\udf9c">>, <<"\\ud81b", "\\udf9d">>,
     <<"\\ud81b", "\\udf9e">>, <<"\\ud81b", "\\udf9f">>, <<"\\ud81b", "\\udfe0">>,
     <<"\\ud81b", "\\udfe1">>, <<"\\ud81b", "\\udfe3">>, <<"\\ud81b", "\\udfe4">>,
     <<"\\ud81b", "\\udff2">>, <<"\\ud81b", "\\udff3">>, <<"\\ud82b", "\\udff0">>,
     <<"\\ud82b", "\\udff1">>, <<"\\ud82b", "\\udff2">>, <<"\\ud82b", "\\udff3">>,
     <<"\\ud82b", "\\udff5">>, <<"\\ud82b", "\\udff6">>, <<"\\ud82b", "\\udff7">>,
     <<"\\ud82b", "\\udff8">>, <<"\\ud82b", "\\udff9">>, <<"\\ud82b", "\\udffa">>,
     <<"\\ud82b", "\\udffb">>, <<"\\ud82b", "\\udffd">>, <<"\\ud82b", "\\udffe">>,
     <<"\\ud82f", "\\udc9d">>, <<"\\ud82f", "\\udc9e">>, <<"\\ud82f", "\\udca0">>,
     <<"\\ud82f", "\\udca1">>, <<"\\ud82f", "\\udca2">>, <<"\\ud82f", "\\udca3">>,
     <<"\\ud833", "\\udf00">>, <<"\\ud833", "\\udf01">>, <<"\\ud833", "\\udf02">>,
     <<"\\ud833", "\\udf03">>, <<"\\ud833", "\\udf04">>, <<"\\ud833", "\\udf05">>,
     <<"\\ud833", "\\udf06">>, <<"\\ud833", "\\udf07">>, <<"\\ud833", "\\udf08">>,
     <<"\\ud833", "\\udf09">>, <<"\\ud833", "\\udf0a">>, <<"\\ud833", "\\udf0b">>,
     <<"\\ud833", "\\udf0c">>, <<"\\ud833", "\\udf0d">>, <<"\\ud833", "\\udf0e">>,
     <<"\\ud833", "\\udf0f">>, <<"\\ud833", "\\udf10">>, <<"\\ud833", "\\udf11">>,
     <<"\\ud833", "\\udf12">>, <<"\\ud833", "\\udf13">>, <<"\\ud833", "\\udf14">>,
     <<"\\ud833", "\\udf15">>, <<"\\ud833", "\\udf16">>, <<"\\ud833", "\\udf17">>,
     <<"\\ud833", "\\udf18">>, <<"\\ud833", "\\udf19">>, <<"\\ud833", "\\udf1a">>,
     <<"\\ud833", "\\udf1b">>, <<"\\ud833", "\\udf1c">>, <<"\\ud833", "\\udf1d">>,
     <<"\\ud833", "\\udf1e">>, <<"\\ud833", "\\udf1f">>, <<"\\ud833", "\\udf20">>,
     <<"\\ud833", "\\udf21">>, <<"\\ud833", "\\udf22">>, <<"\\ud833", "\\udf23">>,
     <<"\\ud833", "\\udf24">>, <<"\\ud833", "\\udf25">>, <<"\\ud833", "\\udf26">>,
     <<"\\ud833", "\\udf27">>, <<"\\ud833", "\\udf28">>, <<"\\ud833", "\\udf29">>,
     <<"\\ud833", "\\udf2a">>, <<"\\ud833", "\\udf2b">>, <<"\\ud833", "\\udf2c">>,
     <<"\\ud833", "\\udf2d">>, <<"\\ud833", "\\udf30">>, <<"\\ud833", "\\udf31">>,
     <<"\\ud833", "\\udf32">>, <<"\\ud833", "\\udf33">>, <<"\\ud833", "\\udf34">>,
     <<"\\ud833", "\\udf35">>, <<"\\ud833", "\\udf36">>, <<"\\ud833", "\\udf37">>,
     <<"\\ud833", "\\udf38">>, <<"\\ud833", "\\udf39">>, <<"\\ud833", "\\udf3a">>,
     <<"\\ud833", "\\udf3b">>, <<"\\ud833", "\\udf3c">>, <<"\\ud833", "\\udf3d">>,
     <<"\\ud833", "\\udf3e">>, <<"\\ud833", "\\udf3f">>, <<"\\ud833", "\\udf40">>,
     <<"\\ud833", "\\udf41">>, <<"\\ud833", "\\udf42">>, <<"\\ud833", "\\udf43">>,
     <<"\\ud833", "\\udf44">>, <<"\\ud833", "\\udf45">>, <<"\\ud833", "\\udf46">>,
     <<"\\ud834", "\\udd67">>, <<"\\ud834", "\\udd68">>, <<"\\ud834", "\\udd69">>,
     <<"\\ud834", "\\udd73">>, <<"\\ud834", "\\udd74">>, <<"\\ud834", "\\udd75">>,
     <<"\\ud834", "\\udd76">>, <<"\\ud834", "\\udd77">>, <<"\\ud834", "\\udd78">>,
     <<"\\ud834", "\\udd79">>, <<"\\ud834", "\\udd7a">>, <<"\\ud834", "\\udd7b">>,
     <<"\\ud834", "\\udd7c">>, <<"\\ud834", "\\udd7d">>, <<"\\ud834", "\\udd7e">>,
     <<"\\ud834", "\\udd7f">>, <<"\\ud834", "\\udd80">>, <<"\\ud834", "\\udd81">>,
     <<"\\ud834", "\\udd82">>, <<"\\ud834", "\\udd85">>, <<"\\ud834", "\\udd86">>,
     <<"\\ud834", "\\udd87">>, <<"\\ud834", "\\udd88">>, <<"\\ud834", "\\udd89">>,
     <<"\\ud834", "\\udd8a">>, <<"\\ud834", "\\udd8b">>, <<"\\ud834", "\\uddaa">>,
     <<"\\ud834", "\\uddab">>, <<"\\ud834", "\\uddac">>, <<"\\ud834", "\\uddad">>,
     <<"\\ud834", "\\ude42">>, <<"\\ud834", "\\ude43">>, <<"\\ud834", "\\ude44">>,
     <<"\\ud836", "\\ude00">>, <<"\\ud836", "\\ude01">>, <<"\\ud836", "\\ude02">>,
     <<"\\ud836", "\\ude03">>, <<"\\ud836", "\\ude04">>, <<"\\ud836", "\\ude05">>,
     <<"\\ud836", "\\ude06">>, <<"\\ud836", "\\ude07">>, <<"\\ud836", "\\ude08">>,
     <<"\\ud836", "\\ude09">>, <<"\\ud836", "\\ude0a">>, <<"\\ud836", "\\ude0b">>,
     <<"\\ud836", "\\ude0c">>, <<"\\ud836", "\\ude0d">>, <<"\\ud836", "\\ude0e">>,
     <<"\\ud836", "\\ude0f">>, <<"\\ud836", "\\ude10">>, <<"\\ud836", "\\ude11">>,
     <<"\\ud836", "\\ude12">>, <<"\\ud836", "\\ude13">>, <<"\\ud836", "\\ude14">>,
     <<"\\ud836", "\\ude15">>, <<"\\ud836", "\\ude16">>, <<"\\ud836", "\\ude17">>,
     <<"\\ud836", "\\ude18">>, <<"\\ud836", "\\ude19">>, <<"\\ud836", "\\ude1a">>,
     <<"\\ud836", "\\ude1b">>, <<"\\ud836", "\\ude1c">>, <<"\\ud836", "\\ude1d">>,
     <<"\\ud836", "\\ude1e">>, <<"\\ud836", "\\ude1f">>, <<"\\ud836", "\\ude20">>,
     <<"\\ud836", "\\ude21">>, <<"\\ud836", "\\ude22">>, <<"\\ud836", "\\ude23">>,
     <<"\\ud836", "\\ude24">>, <<"\\ud836", "\\ude25">>, <<"\\ud836", "\\ude26">>,
     <<"\\ud836", "\\ude27">>, <<"\\ud836", "\\ude28">>, <<"\\ud836", "\\ude29">>,
     <<"\\ud836", "\\ude2a">>, <<"\\ud836", "\\ude2b">>, <<"\\ud836", "\\ude2c">>,
     <<"\\ud836", "\\ude2d">>, <<"\\ud836", "\\ude2e">>, <<"\\ud836", "\\ude2f">>,
     <<"\\ud836", "\\ude30">>, <<"\\ud836", "\\ude31">>, <<"\\ud836", "\\ude32">>,
     <<"\\ud836", "\\ude33">>, <<"\\ud836", "\\ude34">>, <<"\\ud836", "\\ude35">>,
     <<"\\ud836", "\\ude36">>, <<"\\ud836", "\\ude3b">>, <<"\\ud836", "\\ude3c">>,
     <<"\\ud836", "\\ude3d">>, <<"\\ud836", "\\ude3e">>, <<"\\ud836", "\\ude3f">>,
     <<"\\ud836", "\\ude40">>, <<"\\ud836", "\\ude41">>, <<"\\ud836", "\\ude42">>,
     <<"\\ud836", "\\ude43">>, <<"\\ud836", "\\ude44">>, <<"\\ud836", "\\ude45">>,
     <<"\\ud836", "\\ude46">>, <<"\\ud836", "\\ude47">>, <<"\\ud836", "\\ude48">>,
     <<"\\ud836", "\\ude49">>, <<"\\ud836", "\\ude4a">>, <<"\\ud836", "\\ude4b">>,
     <<"\\ud836", "\\ude4c">>, <<"\\ud836", "\\ude4d">>, <<"\\ud836", "\\ude4e">>,
     <<"\\ud836", "\\ude4f">>, <<"\\ud836", "\\ude50">>, <<"\\ud836", "\\ude51">>,
     <<"\\ud836", "\\ude52">>, <<"\\ud836", "\\ude53">>, <<"\\ud836", "\\ude54">>,
     <<"\\ud836", "\\ude55">>, <<"\\ud836", "\\ude56">>, <<"\\ud836", "\\ude57">>,
     <<"\\ud836", "\\ude58">>, <<"\\ud836", "\\ude59">>, <<"\\ud836", "\\ude5a">>,
     <<"\\ud836", "\\ude5b">>, <<"\\ud836", "\\ude5c">>, <<"\\ud836", "\\ude5d">>,
     <<"\\ud836", "\\ude5e">>, <<"\\ud836", "\\ude5f">>, <<"\\ud836", "\\ude60">>,
     <<"\\ud836", "\\ude61">>, <<"\\ud836", "\\ude62">>, <<"\\ud836", "\\ude63">>,
     <<"\\ud836", "\\ude64">>, <<"\\ud836", "\\ude65">>, <<"\\ud836", "\\ude66">>,
     <<"\\ud836", "\\ude67">>, <<"\\ud836", "\\ude68">>, <<"\\ud836", "\\ude69">>,
     <<"\\ud836", "\\ude6a">>, <<"\\ud836", "\\ude6b">>, <<"\\ud836", "\\ude6c">>,
     <<"\\ud836", "\\ude75">>, <<"\\ud836", "\\ude84">>, <<"\\ud836", "\\ude9b">>,
     <<"\\ud836", "\\ude9c">>, <<"\\ud836", "\\ude9d">>, <<"\\ud836", "\\ude9e">>,
     <<"\\ud836", "\\ude9f">>, <<"\\ud836", "\\udea1">>, <<"\\ud836", "\\udea2">>,
     <<"\\ud836", "\\udea3">>, <<"\\ud836", "\\udea4">>, <<"\\ud836", "\\udea5">>,
     <<"\\ud836", "\\udea6">>, <<"\\ud836", "\\udea7">>, <<"\\ud836", "\\udea8">>,
     <<"\\ud836", "\\udea9">>, <<"\\ud836", "\\udeaa">>, <<"\\ud836", "\\udeab">>,
     <<"\\ud836", "\\udeac">>, <<"\\ud836", "\\udead">>, <<"\\ud836", "\\udeae">>,
     <<"\\ud836", "\\udeaf">>, <<"\\ud838", "\\udc00">>, <<"\\ud838", "\\udc01">>,
     <<"\\ud838", "\\udc02">>, <<"\\ud838", "\\udc03">>, <<"\\ud838", "\\udc04">>,
     <<"\\ud838", "\\udc05">>, <<"\\ud838", "\\udc06">>, <<"\\ud838", "\\udc08">>,
     <<"\\ud838", "\\udc09">>, <<"\\ud838", "\\udc0a">>, <<"\\ud838", "\\udc0b">>,
     <<"\\ud838", "\\udc0c">>, <<"\\ud838", "\\udc0d">>, <<"\\ud838", "\\udc0e">>,
     <<"\\ud838", "\\udc0f">>, <<"\\ud838", "\\udc10">>, <<"\\ud838", "\\udc11">>,
     <<"\\ud838", "\\udc12">>, <<"\\ud838", "\\udc13">>, <<"\\ud838", "\\udc14">>,
     <<"\\ud838", "\\udc15">>, <<"\\ud838", "\\udc16">>, <<"\\ud838", "\\udc17">>,
     <<"\\ud838", "\\udc18">>, <<"\\ud838", "\\udc1b">>, <<"\\ud838", "\\udc1c">>,
     <<"\\ud838", "\\udc1d">>, <<"\\ud838", "\\udc1e">>, <<"\\ud838", "\\udc1f">>,
     <<"\\ud838", "\\udc20">>, <<"\\ud838", "\\udc21">>, <<"\\ud838", "\\udc23">>,
     <<"\\ud838", "\\udc24">>, <<"\\ud838", "\\udc26">>, <<"\\ud838", "\\udc27">>,
     <<"\\ud838", "\\udc28">>, <<"\\ud838", "\\udc29">>, <<"\\ud838", "\\udc2a">>,
     <<"\\ud838", "\\udc30">>, <<"\\ud838", "\\udc31">>, <<"\\ud838", "\\udc32">>,
     <<"\\ud838", "\\udc33">>, <<"\\ud838", "\\udc34">>, <<"\\ud838", "\\udc35">>,
     <<"\\ud838", "\\udc36">>, <<"\\ud838", "\\udc37">>, <<"\\ud838", "\\udc38">>,
     <<"\\ud838", "\\udc39">>, <<"\\ud838", "\\udc3a">>, <<"\\ud838", "\\udc3b">>,
     <<"\\ud838", "\\udc3c">>, <<"\\ud838", "\\udc3d">>, <<"\\ud838", "\\udc3e">>,
     <<"\\ud838", "\\udc3f">>, <<"\\ud838", "\\udc40">>, <<"\\ud838", "\\udc41">>,
     <<"\\ud838", "\\udc42">>, <<"\\ud838", "\\udc43">>, <<"\\ud838", "\\udc44">>,
     <<"\\ud838", "\\udc45">>, <<"\\ud838", "\\udc46">>, <<"\\ud838", "\\udc47">>,
     <<"\\ud838", "\\udc48">>, <<"\\ud838", "\\udc49">>, <<"\\ud838", "\\udc4a">>,
     <<"\\ud838", "\\udc4b">>, <<"\\ud838", "\\udc4c">>, <<"\\ud838", "\\udc4d">>,
     <<"\\ud838", "\\udc4e">>, <<"\\ud838", "\\udc4f">>, <<"\\ud838", "\\udc50">>,
     <<"\\ud838", "\\udc51">>, <<"\\ud838", "\\udc52">>, <<"\\ud838", "\\udc53">>,
     <<"\\ud838", "\\udc54">>, <<"\\ud838", "\\udc55">>, <<"\\ud838", "\\udc56">>,
     <<"\\ud838", "\\udc57">>, <<"\\ud838", "\\udc58">>, <<"\\ud838", "\\udc59">>,
     <<"\\ud838", "\\udc5a">>, <<"\\ud838", "\\udc5b">>, <<"\\ud838", "\\udc5c">>,
     <<"\\ud838", "\\udc5d">>, <<"\\ud838", "\\udc5e">>, <<"\\ud838", "\\udc5f">>,
     <<"\\ud838", "\\udc60">>, <<"\\ud838", "\\udc61">>, <<"\\ud838", "\\udc62">>,
     <<"\\ud838", "\\udc63">>, <<"\\ud838", "\\udc64">>, <<"\\ud838", "\\udc65">>,
     <<"\\ud838", "\\udc66">>, <<"\\ud838", "\\udc67">>, <<"\\ud838", "\\udc68">>,
     <<"\\ud838", "\\udc69">>, <<"\\ud838", "\\udc6a">>, <<"\\ud838", "\\udc6b">>,
     <<"\\ud838", "\\udc6c">>, <<"\\ud838", "\\udc6d">>, <<"\\ud838", "\\udc8f">>,
     <<"\\ud838", "\\udd30">>, <<"\\ud838", "\\udd31">>, <<"\\ud838", "\\udd32">>,
     <<"\\ud838", "\\udd33">>, <<"\\ud838", "\\udd34">>, <<"\\ud838", "\\udd35">>,
     <<"\\ud838", "\\udd36">>, <<"\\ud838", "\\udd37">>, <<"\\ud838", "\\udd38">>,
     <<"\\ud838", "\\udd39">>, <<"\\ud838", "\\udd3a">>, <<"\\ud838", "\\udd3b">>,
     <<"\\ud838", "\\udd3c">>, <<"\\ud838", "\\udd3d">>, <<"\\ud838", "\\udeae">>,
     <<"\\ud838", "\\udeec">>, <<"\\ud838", "\\udeed">>, <<"\\ud838", "\\udeee">>,
     <<"\\ud838", "\\udeef">>, <<"\\ud839", "\\udceb">>, <<"\\ud839", "\\udcec">>,
     <<"\\ud839", "\\udced">>, <<"\\ud839", "\\udcee">>, <<"\\ud839", "\\udcef">>,
     <<"\\ud839", "\\uddee">>, <<"\\ud839", "\\uddef">>, <<"\\ud839", "\\udee3">>,
     <<"\\ud839", "\\udee6">>, <<"\\ud839", "\\udeee">>, <<"\\ud839", "\\udeef">>,
     <<"\\ud839", "\\udef5">>, <<"\\ud839", "\\udeff">>, <<"\\ud83a", "\\udcd0">>,
     <<"\\ud83a", "\\udcd1">>, <<"\\ud83a", "\\udcd2">>, <<"\\ud83a", "\\udcd3">>,
     <<"\\ud83a", "\\udcd4">>, <<"\\ud83a", "\\udcd5">>, <<"\\ud83a", "\\udcd6">>,
     <<"\\ud83a", "\\udd44">>, <<"\\ud83a", "\\udd45">>, <<"\\ud83a", "\\udd46">>,
     <<"\\ud83a", "\\udd47">>, <<"\\ud83a", "\\udd48">>, <<"\\ud83a", "\\udd49">>,
     <<"\\ud83a", "\\udd4a">>, <<"\\ud83a", "\\udd4b">>, <<"\\ud83c", "\\udffb">>,
     <<"\\ud83c", "\\udffc">>, <<"\\ud83c", "\\udffd">>, <<"\\ud83c", "\\udffe">>,
     <<"\\ud83c", "\\udfff">>, <<"\\udb40", "\\udc01">>, <<"\\udb40", "\\udc20">>,
     <<"\\udb40", "\\udc21">>, <<"\\udb40", "\\udc22">>, <<"\\udb40", "\\udc23">>,
     <<"\\udb40", "\\udc24">>, <<"\\udb40", "\\udc25">>, <<"\\udb40", "\\udc26">>,
     <<"\\udb40", "\\udc27">>, <<"\\udb40", "\\udc28">>, <<"\\udb40", "\\udc29">>,
     <<"\\udb40", "\\udc2a">>, <<"\\udb40", "\\udc2b">>, <<"\\udb40", "\\udc2c">>,
     <<"\\udb40", "\\udc2d">>, <<"\\udb40", "\\udc2e">>, <<"\\udb40", "\\udc2f">>,
     <<"\\udb40", "\\udc30">>, <<"\\udb40", "\\udc31">>, <<"\\udb40", "\\udc32">>,
     <<"\\udb40", "\\udc33">>, <<"\\udb40", "\\udc34">>, <<"\\udb40", "\\udc35">>,
     <<"\\udb40", "\\udc36">>, <<"\\udb40", "\\udc37">>, <<"\\udb40", "\\udc38">>,
     <<"\\udb40", "\\udc39">>, <<"\\udb40", "\\udc3a">>, <<"\\udb40", "\\udc3b">>,
     <<"\\udb40", "\\udc3c">>, <<"\\udb40", "\\udc3d">>, <<"\\udb40", "\\udc3e">>,
     <<"\\udb40", "\\udc3f">>, <<"\\udb40", "\\udc40">>, <<"\\udb40", "\\udc41">>,
     <<"\\udb40", "\\udc42">>, <<"\\udb40", "\\udc43">>, <<"\\udb40", "\\udc44">>,
     <<"\\udb40", "\\udc45">>, <<"\\udb40", "\\udc46">>, <<"\\udb40", "\\udc47">>,
     <<"\\udb40", "\\udc48">>, <<"\\udb40", "\\udc49">>, <<"\\udb40", "\\udc4a">>,
     <<"\\udb40", "\\udc4b">>, <<"\\udb40", "\\udc4c">>, <<"\\udb40", "\\udc4d">>,
     <<"\\udb40", "\\udc4e">>, <<"\\udb40", "\\udc4f">>, <<"\\udb40", "\\udc50">>,
     <<"\\udb40", "\\udc51">>, <<"\\udb40", "\\udc52">>, <<"\\udb40", "\\udc53">>,
     <<"\\udb40", "\\udc54">>, <<"\\udb40", "\\udc55">>, <<"\\udb40", "\\udc56">>,
     <<"\\udb40", "\\udc57">>, <<"\\udb40", "\\udc58">>, <<"\\udb40", "\\udc59">>,
     <<"\\udb40", "\\udc5a">>, <<"\\udb40", "\\udc5b">>, <<"\\udb40", "\\udc5c">>,
     <<"\\udb40", "\\udc5d">>, <<"\\udb40", "\\udc5e">>, <<"\\udb40", "\\udc5f">>,
     <<"\\udb40", "\\udc60">>, <<"\\udb40", "\\udc61">>, <<"\\udb40", "\\udc62">>,
     <<"\\udb40", "\\udc63">>, <<"\\udb40", "\\udc64">>, <<"\\udb40", "\\udc65">>,
     <<"\\udb40", "\\udc66">>, <<"\\udb40", "\\udc67">>, <<"\\udb40", "\\udc68">>,
     <<"\\udb40", "\\udc69">>, <<"\\udb40", "\\udc6a">>, <<"\\udb40", "\\udc6b">>,
     <<"\\udb40", "\\udc6c">>, <<"\\udb40", "\\udc6d">>, <<"\\udb40", "\\udc6e">>,
     <<"\\udb40", "\\udc6f">>, <<"\\udb40", "\\udc70">>, <<"\\udb40", "\\udc71">>,
     <<"\\udb40", "\\udc72">>, <<"\\udb40", "\\udc73">>, <<"\\udb40", "\\udc74">>,
     <<"\\udb40", "\\udc75">>, <<"\\udb40", "\\udc76">>, <<"\\udb40", "\\udc77">>,
     <<"\\udb40", "\\udc78">>, <<"\\udb40", "\\udc79">>, <<"\\udb40", "\\udc7a">>,
     <<"\\udb40", "\\udc7b">>, <<"\\udb40", "\\udc7c">>, <<"\\udb40", "\\udc7d">>,
     <<"\\udb40", "\\udc7e">>, <<"\\udb40", "\\udc7f">>, <<"\\udb40", "\\udd00">>,
     <<"\\udb40", "\\udd01">>, <<"\\udb40", "\\udd02">>, <<"\\udb40", "\\udd03">>,
     <<"\\udb40", "\\udd04">>, <<"\\udb40", "\\udd05">>, <<"\\udb40", "\\udd06">>,
     <<"\\udb40", "\\udd07">>, <<"\\udb40", "\\udd08">>, <<"\\udb40", "\\udd09">>,
     <<"\\udb40", "\\udd0a">>, <<"\\udb40", "\\udd0b">>, <<"\\udb40", "\\udd0c">>,
     <<"\\udb40", "\\udd0d">>, <<"\\udb40", "\\udd0e">>, <<"\\udb40", "\\udd0f">>,
     <<"\\udb40", "\\udd10">>, <<"\\udb40", "\\udd11">>, <<"\\udb40", "\\udd12">>,
     <<"\\udb40", "\\udd13">>, <<"\\udb40", "\\udd14">>, <<"\\udb40", "\\udd15">>,
     <<"\\udb40", "\\udd16">>, <<"\\udb40", "\\udd17">>, <<"\\udb40", "\\udd18">>,
     <<"\\udb40", "\\udd19">>, <<"\\udb40", "\\udd1a">>, <<"\\udb40", "\\udd1b">>,
     <<"\\udb40", "\\udd1c">>, <<"\\udb40", "\\udd1d">>, <<"\\udb40", "\\udd1e">>,
     <<"\\udb40", "\\udd1f">>, <<"\\udb40", "\\udd20">>, <<"\\udb40", "\\udd21">>,
     <<"\\udb40", "\\udd22">>, <<"\\udb40", "\\udd23">>, <<"\\udb40", "\\udd24">>,
     <<"\\udb40", "\\udd25">>, <<"\\udb40", "\\udd26">>, <<"\\udb40", "\\udd27">>,
     <<"\\udb40", "\\udd28">>, <<"\\udb40", "\\udd29">>, <<"\\udb40", "\\udd2a">>,
     <<"\\udb40", "\\udd2b">>, <<"\\udb40", "\\udd2c">>, <<"\\udb40", "\\udd2d">>,
     <<"\\udb40", "\\udd2e">>, <<"\\udb40", "\\udd2f">>, <<"\\udb40", "\\udd30">>,
     <<"\\udb40", "\\udd31">>, <<"\\udb40", "\\udd32">>, <<"\\udb40", "\\udd33">>,
     <<"\\udb40", "\\udd34">>, <<"\\udb40", "\\udd35">>, <<"\\udb40", "\\udd36">>,
     <<"\\udb40", "\\udd37">>, <<"\\udb40", "\\udd38">>, <<"\\udb40", "\\udd39">>,
     <<"\\udb40", "\\udd3a">>, <<"\\udb40", "\\udd3b">>, <<"\\udb40", "\\udd3c">>,
     <<"\\udb40", "\\udd3d">>, <<"\\udb40", "\\udd3e">>, <<"\\udb40", "\\udd3f">>,
     <<"\\udb40", "\\udd40">>, <<"\\udb40", "\\udd41">>, <<"\\udb40", "\\udd42">>,
     <<"\\udb40", "\\udd43">>, <<"\\udb40", "\\udd44">>, <<"\\udb40", "\\udd45">>,
     <<"\\udb40", "\\udd46">>, <<"\\udb40", "\\udd47">>, <<"\\udb40", "\\udd48">>,
     <<"\\udb40", "\\udd49">>, <<"\\udb40", "\\udd4a">>, <<"\\udb40", "\\udd4b">>,
     <<"\\udb40", "\\udd4c">>, <<"\\udb40", "\\udd4d">>, <<"\\udb40", "\\udd4e">>,
     <<"\\udb40", "\\udd4f">>, <<"\\udb40", "\\udd50">>, <<"\\udb40", "\\udd51">>,
     <<"\\udb40", "\\udd52">>, <<"\\udb40", "\\udd53">>, <<"\\udb40", "\\udd54">>,
     <<"\\udb40", "\\udd55">>, <<"\\udb40", "\\udd56">>, <<"\\udb40", "\\udd57">>,
     <<"\\udb40", "\\udd58">>, <<"\\udb40", "\\udd59">>, <<"\\udb40", "\\udd5a">>,
     <<"\\udb40", "\\udd5b">>, <<"\\udb40", "\\udd5c">>, <<"\\udb40", "\\udd5d">>,
     <<"\\udb40", "\\udd5e">>, <<"\\udb40", "\\udd5f">>, <<"\\udb40", "\\udd60">>,
     <<"\\udb40", "\\udd61">>, <<"\\udb40", "\\udd62">>, <<"\\udb40", "\\udd63">>,
     <<"\\udb40", "\\udd64">>, <<"\\udb40", "\\udd65">>, <<"\\udb40", "\\udd66">>,
     <<"\\udb40", "\\udd67">>, <<"\\udb40", "\\udd68">>, <<"\\udb40", "\\udd69">>,
     <<"\\udb40", "\\udd6a">>, <<"\\udb40", "\\udd6b">>, <<"\\udb40", "\\udd6c">>,
     <<"\\udb40", "\\udd6d">>, <<"\\udb40", "\\udd6e">>, <<"\\udb40", "\\udd6f">>,
     <<"\\udb40", "\\udd70">>, <<"\\udb40", "\\udd71">>, <<"\\udb40", "\\udd72">>,
     <<"\\udb40", "\\udd73">>, <<"\\udb40", "\\udd74">>, <<"\\udb40", "\\udd75">>,
     <<"\\udb40", "\\udd76">>, <<"\\udb40", "\\udd77">>, <<"\\udb40", "\\udd78">>,
     <<"\\udb40", "\\udd79">>, <<"\\udb40", "\\udd7a">>, <<"\\udb40", "\\udd7b">>,
     <<"\\udb40", "\\udd7c">>, <<"\\udb40", "\\udd7d">>, <<"\\udb40", "\\udd7e">>,
     <<"\\udb40", "\\udd7f">>, <<"\\udb40", "\\udd80">>, <<"\\udb40", "\\udd81">>,
     <<"\\udb40", "\\udd82">>, <<"\\udb40", "\\udd83">>, <<"\\udb40", "\\udd84">>,
     <<"\\udb40", "\\udd85">>, <<"\\udb40", "\\udd86">>, <<"\\udb40", "\\udd87">>,
     <<"\\udb40", "\\udd88">>, <<"\\udb40", "\\udd89">>, <<"\\udb40", "\\udd8a">>,
     <<"\\udb40", "\\udd8b">>, <<"\\udb40", "\\udd8c">>, <<"\\udb40", "\\udd8d">>,
     <<"\\udb40", "\\udd8e">>, <<"\\udb40", "\\udd8f">>, <<"\\udb40", "\\udd90">>,
     <<"\\udb40", "\\udd91">>, <<"\\udb40", "\\udd92">>, <<"\\udb40", "\\udd93">>,
     <<"\\udb40", "\\udd94">>, <<"\\udb40", "\\udd95">>, <<"\\udb40", "\\udd96">>,
     <<"\\udb40", "\\udd97">>, <<"\\udb40", "\\udd98">>, <<"\\udb40", "\\udd99">>,
     <<"\\udb40", "\\udd9a">>, <<"\\udb40", "\\udd9b">>, <<"\\udb40", "\\udd9c">>,
     <<"\\udb40", "\\udd9d">>, <<"\\udb40", "\\udd9e">>, <<"\\udb40", "\\udd9f">>,
     <<"\\udb40", "\\udda0">>, <<"\\udb40", "\\udda1">>, <<"\\udb40", "\\udda2">>,
     <<"\\udb40", "\\udda3">>, <<"\\udb40", "\\udda4">>, <<"\\udb40", "\\udda5">>,
     <<"\\udb40", "\\udda6">>, <<"\\udb40", "\\udda7">>, <<"\\udb40", "\\udda8">>,
     <<"\\udb40", "\\udda9">>, <<"\\udb40", "\\uddaa">>, <<"\\udb40", "\\uddab">>,
     <<"\\udb40", "\\uddac">>, <<"\\udb40", "\\uddad">>, <<"\\udb40", "\\uddae">>,
     <<"\\udb40", "\\uddaf">>, <<"\\udb40", "\\uddb0">>, <<"\\udb40", "\\uddb1">>,
     <<"\\udb40", "\\uddb2">>, <<"\\udb40", "\\uddb3">>, <<"\\udb40", "\\uddb4">>,
     <<"\\udb40", "\\uddb5">>, <<"\\udb40", "\\uddb6">>, <<"\\udb40", "\\uddb7">>,
     <<"\\udb40", "\\uddb8">>, <<"\\udb40", "\\uddb9">>, <<"\\udb40", "\\uddba">>,
     <<"\\udb40", "\\uddbb">>, <<"\\udb40", "\\uddbc">>, <<"\\udb40", "\\uddbd">>,
     <<"\\udb40", "\\uddbe">>, <<"\\udb40", "\\uddbf">>, <<"\\udb40", "\\uddc0">>,
     <<"\\udb40", "\\uddc1">>, <<"\\udb40", "\\uddc2">>, <<"\\udb40", "\\uddc3">>,
     <<"\\udb40", "\\uddc4">>, <<"\\udb40", "\\uddc5">>, <<"\\udb40", "\\uddc6">>,
     <<"\\udb40", "\\uddc7">>, <<"\\udb40", "\\uddc8">>, <<"\\udb40", "\\uddc9">>,
     <<"\\udb40", "\\uddca">>, <<"\\udb40", "\\uddcb">>, <<"\\udb40", "\\uddcc">>,
     <<"\\udb40", "\\uddcd">>, <<"\\udb40", "\\uddce">>, <<"\\udb40", "\\uddcf">>,
     <<"\\udb40", "\\uddd0">>, <<"\\udb40", "\\uddd1">>, <<"\\udb40", "\\uddd2">>,
     <<"\\udb40", "\\uddd3">>, <<"\\udb40", "\\uddd4">>, <<"\\udb40", "\\uddd5">>,
     <<"\\udb40", "\\uddd6">>, <<"\\udb40", "\\uddd7">>, <<"\\udb40", "\\uddd8">>,
     <<"\\udb40", "\\uddd9">>, <<"\\udb40", "\\uddda">>, <<"\\udb40", "\\udddb">>,
     <<"\\udb40", "\\udddc">>, <<"\\udb40", "\\udddd">>, <<"\\udb40", "\\uddde">>,
     <<"\\udb40", "\\udddf">>, <<"\\udb40", "\\udde0">>, <<"\\udb40", "\\udde1">>,
     <<"\\udb40", "\\udde2">>, <<"\\udb40", "\\udde3">>, <<"\\udb40", "\\udde4">>,
     <<"\\udb40", "\\udde5">>, <<"\\udb40", "\\udde6">>, <<"\\udb40", "\\udde7">>,
     <<"\\udb40", "\\udde8">>, <<"\\udb40", "\\udde9">>, <<"\\udb40", "\\uddea">>,
     <<"\\udb40", "\\uddeb">>, <<"\\udb40", "\\uddec">>, <<"\\udb40", "\\udded">>,
     <<"\\udb40", "\\uddee">>, <<"\\udb40", "\\uddef">> }

\* the cased letters the Final_Sigma context stops at
CasedLetters ==
  {
     <<"A">>, <<"B">>, <<"C">>, <<"D">>, <<"E">>, <<"F">>, <<"G">>, <<"H">>, <<"I">>, <<"J">>,
     <<"K">>, <<"L">>, <<"M">>, <<"N">>, <<"O">>, <<"P">>, <<"Q">>, <<"R">>, <<"S">>, <<"T">>,
     <<"U">>, <<"V">>, <<"W">>, <<"X">>, <<"Y">>, <<"Z">>, <<"a">>, <<"b">>, <<"c">>, <<"d">>,
     <<"e">>, <<"f">>, <<"g">>, <<"h">>, <<"i">>, <<"j">>, <<"k">>, <<"l">>, <<"m">>, <<"n">>,
     <<"o">>, <<"p">>, <<"q">>, <<"r">>, <<"s">>, <<"t">>, <<"u">>, <<"v">>, <<"w">>, <<"x">>,
     <<"y">>, <<"z">>, <<"ª">>, <<"µ">>, <<"º">>, <<"À">>, <<"Á">>, <<"Â">>, <<"Ã">>, <<"Ä">>,
     <<"Å">>, <<"Æ">>, <<"Ç">>, <<"È">>, <<"É">>, <<"Ê">>, <<"Ë">>, <<"Ì">>, <<"Í">>, <<"Î">>,
     <<"Ï">>, <<"Ð">>, <<"Ñ">>, <<"Ò">>, <<"Ó">>, <<"Ô">>, <<"Õ">>, <<"Ö">>, <<"Ø">>, <<"Ù">>,
     <<"Ú">>, <<"Û">>, <<"Ü">>, <<"Ý">>, <<"Þ">>, <<"ß">>, <<"à">>, <<"á">>, <<"â">>, <<"ã">>,
     <<"ä">>, <<"å">>, <<"æ">>, <<"ç">>, <<"è">>, <<"é">>, <<"ê">>, <<"ë">>, <<"ì">>, <<"í">>,
     <<"î">>, <<"ï">>, <<"ð">>, <<"ñ">>, <<"ò">>, <<"ó">>, <<"ô">>, <<"õ">>, <<"ö">>, <<"ø">>,
     <<"ù">>, <<"ú">>, <<"û">>, <<"ü">>, <<"ý">>, <<"þ">>, <<"ÿ">>, <<"\\u0100">>, <<"\\u0101">>,
     <<"\\u0102">>, <<"\\u0103">>, <<"\\u0104">>, <<"\\u0105">>, <<"\\u0106">>, <<"\\u0107">>,
     <<"\\u0108">>, <<"\\u0109">>, <<"\\u010a">>, <<"\\u010b">>, <<"\\u010c">>, <<"\\u010d">>,
     <<"\\u010e">>, <<"\\u010f">>, <<"\\u0110">>, <<"\\u0111">>, <<"\\u0112">>, <<"\\u0113">>,
     <<"\\u0114">>, <<"\\u0115">>, <<"\\u0116">>, <<"\\u0117">>, <<"\\u0118">>, <<"\\u0119">>,
     <<"\\u011a">>, <<"\\u011b">>, <<"\\u011c">>, <<"\\u011d">>, <<"\\u011e">>, <<"\\u011f">>,
     <<"\\u0120">>, <<"\\u0121">>, <<"\\u0122">>, <<"\\u0123">>, <<"\\u0124">>, <<"\\u0125">>,
     <<"\\u0126">>, <<"\\u0127">>, <<"\\u0128">>, <<"\\u0129">>, <<"\\u012a">>, <<"\\u012b">>,
     <<"\\u012c">>, <<"\\u012d">>, <<"\\u012e">>, <<"\\u012f">>, <<"\\u0130">>, <<"\\u0131">>,
     <<"\\u0132">>, <<"\\u0133">>, <<"\\u0134">>, <<"\\u0135">>, <<"\\u0136">>, <<"\\u0137">>,
     <<"\\u0138">>, <<"\\u0139">>, <<"\\u013a">>, <<"\\u013b">>, <<"\\u013c">>, <<"\\u013d">>,
     <<"\\u013e">>, <<"\\u013f">>, <<"\\u0140">>, <<"\\u0141">>, <<"\\u0142">>, <<"\\u0143">>,
     <<"\\u0144">>, <<"\\u0145">>, <<"\\u0146">>, <<"\\u0147">>, <<"\\u0148">>, <<"\\u0149">>,
     <<"\\u014a">>, <<"\\u014b">>, <<"\\u014c">>, <<"\\u014d">>, <<"\\u014e">>, <<"\\u014f">>,
     <<"\\u0150">>, <<"\\u0151">>, <<"\\u0152">>, <<"\\u0153">>, <<"\\u0154">>, <<"\\u0155">>,
     <<"\\u0156">>, <<"\\u0157">>, <<"\\u0158">>, <<"\\u0159">>, <<"\\u015a">>, <<"\\u015b">>,
     <<"\\u015c">>, <<"\\u015d">>, <<"\\u015e">>, <<"\\u015f">>, <<"\\u0160">>, <<"\\u0161">>,
     <<"\\u0162">>, <<"\\u0163">>, <<"\\u0164">>, <<"\\u0165">>, <<"\\u0166">>, <<"\\u0167">>,
     <<"\\u0168">>, <<"\\u0169">>, <<"\\u016a">>, <<"\\u016b">>, <<"\\u016c">>, <<"\\u016d">>,
     <<"\\u016e">>, <<"\\u016f">>, <<"\\u0170">>, <<"\\u0171">>, <<"\\u0172">>, <<"\\u0173">>,
     <<"\\u0174">>, <<"\\u0175">>, <<"\\u0176">>, <<"\\u0177">>, <<"\\u0178">>, <<"\\u0179">>,
     <<"\\u017a">>, <<"\\u017b">>, <<"\\u017c">>, <<"\\u017d">>, <<"\\u017e">>, <<"\\u017f">>,
     <<"ƀ">>, <<"Ɓ">>, <<"Ƃ">>, <<"ƃ">>, <<"Ƅ">>, <<"ƅ">>, <<"Ɔ">>, <<"Ƈ">>, <<"ƈ">>, <<"Ɖ">>,
     <<"Ɗ">>, <<"Ƌ">>, <<"ƌ">>, <<"ƍ">>, <<"Ǝ">>, <<"Ə">>, <<"Ɛ">>, <<"Ƒ">>, <<"ƒ">>, <<"Ɠ">>,
     <<"Ɣ">>, <<"ƕ">>, <<"Ɩ">>, <<"Ɨ">>, <<"Ƙ">>, <<"ƙ">>, <<"ƚ">>, <<"ƛ">>, <<"Ɯ">>, <<"Ɲ">>,
     <<"ƞ">>, <<"Ɵ">>, <<"Ơ">>, <<"ơ">>, <<"Ƣ">>, <<"ƣ">>, <<"Ƥ">>, <<"ƥ">>, <<"Ʀ">>, <<"Ƨ">>,
     <<"ƨ">>, <<"Ʃ">>, <<"ƪ">>, <<"ƫ">>, <<"Ƭ">>, <<"ƭ">>, <<"Ʈ">>, <<"Ư">>, <<"ư">>, <<"Ʊ">>,
     <<"Ʋ">>, <<"Ƴ">>, <<"ƴ">>, <<"Ƶ">>, <<"ƶ">>, <<"Ʒ">>, <<"Ƹ">>, <<"ƹ">>, <<"ƺ">>, <<"Ƽ">>,
     <<"ƽ">>, <<"ƾ">>, <<"ƿ">>, <<"Ǆ">>, <<"ǅ">>, <<"ǆ">>, <<"Ǉ">>, <<"ǈ">>, <<"ǉ">>, <<"Ǌ">>,
     <<"ǋ">>, <<"ǌ">>, <<"Ǎ">>, <<"ǎ">>, <<"Ǐ">>, <<"ǐ">>, <<"Ǒ">>, <<"ǒ">>, <<"Ǔ">>, <<"ǔ">>,
     <<"Ǖ">>, <<"ǖ">>, <<"Ǘ">>, <<"ǘ">>, <<"Ǚ">>, <<"ǚ">>, <<"Ǜ">>, <<"ǜ">>, <<"ǝ">>, <<"Ǟ">>,
     <<"ǟ">>, <<"Ǡ">>, <<"ǡ">>, <<"Ǣ">>, <<"ǣ">>, <<"Ǥ">>, <<"ǥ">>, <<"Ǧ">>, <<"ǧ">>, <<"Ǩ">>,
     <<"ǩ">>, <<"Ǫ">>, <<"ǫ">>, <<"Ǭ">>, <<"ǭ">>, <<"Ǯ">>, <<"ǯ">>, <<"ǰ">>, <<"Ǳ">>, <<"ǲ">>,
     <<"ǳ">>, <<"Ǵ">>, <<"ǵ">>, <<"Ƕ">>, <<"Ƿ">>, <<"Ǹ">>, <<"ǹ">>, <<"Ǻ">>, <<"ǻ">>, <<"Ǽ">>,
     <<"ǽ">>, <<"Ǿ">>, <<"ǿ">>, <<"\\u0200">>, <<"\\u0201">>, <<"\\u0202">>, <<"\\u0203">>,
     <<"\\u0204">>, <<"\\u0205">>, <<"\\u0206">>, <<"\\u0207">>, <<"\\u0208">>, <<"\\u0209">>,
     <<"\\u020a">>, <<"\\u020b">>, <<"\\u020c">>, <<"\\u020d">>, <<"\\u020e">>, <<"\\u020f">>,
     <<"\\u0210">>, <<"\\u0211">>, <<"\\u0212">>, <<"\\u0213">>, <<"\\u0214">>, <<"\\u0215">>,
     <<"\\u0216">>, <<"\\u0217">>, <<"\\u0218">>, <<"\\u0219">>, <<"\\u021a">>, <<"\\u021b">>,
     <<"\\u021c">>, <<"\\u021d">>, <<"\\u021e">>, <<"\\u021f">>, <<"\\u0220">>, <<"\\u0221">>,
     <<"\\u0222">>, <<"\\u0223">>, <<"\\u0224">>, <<"\\u0225">>, <<"\\u0226">>, <<"\\u0227">>,
     <<"\\u0228">>, <<"\\u0229">>, <<"\\u022a">>, <<"\\u022b">>, <<"\\u022c">>, <<"\\u022d">>,
     <<"\\u022e">>, <<"\\u022f">>, <<"\\u0230">>, <<"\\u0231">>, <<"\\u0232">>, <<"\\u0233">>,
     <<"\\u0234">>, <<"\\u0235">>, <<"\\u0236">>, <<"\\u0237">>, <<"\\u0238">>, <<"\\u0239">>,
     <<"\\u023a">>, <<"\\u023b">>, <<"\\u023c">>, <<"\\u023d">>, <<"\\u023e">>, <<"\\u023f">>,
     <<"\\u0240">>, <<"\\u0241">>, <<"\\u0242">>, <<"\\u0243">>, <<"\\u0244">>, <<"\\u0245">>,
     <<"\\u0246">>, <<"\\u0247">>, <<"\\u0248">>, <<"\\u0249">>, <<"\\u024a">>, <<"\\u024b">>,
     <<"\\u024c">>, <<"\\u024d">>, <<"\\u024e">>, <<"\\u024f">>, <<"\\u0250">>, <<"\\u0251">>,
     <<"\\u0252">>, <<"\\u0253">>, <<"\\u0254">>, <<"\\u0255">>, <<"\\u0256">>, <<"\\u0257">>,
     <<"\\u0258">>, <<"\\u0259">>, <<"\\u025a">>, <<"\\u025b">>, <<"\\u025c">>, <<"\\u025d">>,
     <<"\\u025e">>, <<"\\u025f">>, <<"\\u0260">>, <<"\\u0261">>, <<"\\u0262">>, <<"\\u0263">>,
     <<"\\u0264">>, <<"\\u0265">>, <<"\\u0266">>, <<"\\u0267">>, <<"\\u0268">>, <<"\\u0269">>,
     <<"\\u026a">>, <<"\\u026b">>, <<"\\u026c">>, <<"\\u026d">>, <<"\\u026e">>, <<"\\u026f">>,
     <<"\\u0270">>, <<"\\u0271">>, <<"\\u0272">>, <<"\\u0273">>, <<"\\u0274">>, <<"\\u0275">>,
     <<"\\u0276">>, <<"\\u0277">>, <<"\\u0278">>, <<"\\u0279">>, <<"\\u027a">>, <<"\\u027b">>,
     <<"\\u027c">>, <<"\\u027d">>, <<"\\u027e">>, <<"\\u027f">>, <<"ʀ">>, <<"ʁ">>, <<"ʂ">>,
     <<"ʃ">>, <<"ʄ">>, <<"ʅ">>, <<"ʆ">>, <<"ʇ">>, <<"ʈ">>, <<"ʉ">>, <<"ʊ">>, <<"ʋ">>, <<"ʌ">>,
     <<"ʍ">>, <<"ʎ">>, <<"ʏ">>, <<"ʐ">>, <<"ʑ">>, <<"ʒ">>, <<"ʓ">>, <<"ʖ">>, <<"ʗ">>, <<"ʘ">>,
     <<"ʙ">>, <<"ʚ">>, <<"ʛ">>, <<"ʜ">>, <<"ʝ">>, <<"ʞ">>, <<"ʟ">>, <<"ʠ">>, <<"ʡ">>, <<"ʢ">>,
     <<"ʣ">>, <<"ʤ">>, <<"ʥ">>, <<"ʦ">>, <<"ʧ">>, <<"ʨ">>, <<"ʩ">>, <<"ʪ">>, <<"ʫ">>, <<"ʬ">>,
     <<"ʭ">>, <<"ʮ">>, <<"ʯ">>, <<"\\u0370">>, <<"\\u0371">>, <<"\\u0372">>, <<"\\u0373">>,
     <<"\\u0376">>, <<"\\u0377">>, <<"\\u037b">>, <<"\\u037c">>, <<"\\u037d">>, <<"\\u037f">>,
     <<"Ά">>, <<"Έ">>, <<"Ή">>, <<"Ί">>, <<"Ό">>, <<"Ύ">>, <<"Ώ">>, <<"ΐ">>, <<"Α">>, <<"Β">>,
     <<"Γ">>, <<"Δ">>, <<"Ε">>, <<"Ζ">>, <<"Η">>, <<"Θ">>, <<"Ι">>, <<"Κ">>, <<"Λ">>, <<"Μ">>,
     <<"Ν">>, <<"Ξ">>, <<"Ο">>, <<"Π">>, <<"Ρ">>, <<"Σ">>, <<"Τ">>, <<"Υ">>, <<"Φ">>, <<"Χ">>,
     <<"Ψ">>, <<"Ω">>, <<"Ϊ">>, <<"Ϋ">>, <<"ά">>, <<"έ">>, <<"ή">>, <<"ί">>, <<"ΰ">>, <<"α">>,
     <<"β">>, <<"γ">>, <<"δ">>, <<"ε">>, <<"ζ">>, <<"η">>, <<"θ">>, <<"ι">>, <<"κ">>, <<"λ">>,
     <<"μ">>, <<"ν">>, <<"ξ">>, <<"ο">>, <<"π">>, <<"ρ">>, <<"ς">>, <<"σ">>, <<"τ">>, <<"υ">>,
     <<"φ">>, <<"χ">>, <<"ψ">>, <<"ω">>, <<"ϊ">>, <<"ϋ">>, <<"ό">>, <<"ύ">>, <<"ώ">>, <<"Ϗ">>,
     <<"ϐ">>, <<"ϑ">>, <<"ϒ">>, <<"ϓ">>, <<"ϔ">>, <<"ϕ">>, <<"ϖ">>, <<"ϗ">>, <<"Ϙ">>, <<"ϙ">>,
     <<"Ϛ">>, <<"ϛ">>, <<"Ϝ">>, <<"ϝ">>, <<"Ϟ">>, <<"ϟ">>, <<"Ϡ">>, <<"ϡ">>, <<"Ϣ">>, <<"ϣ">>,
     <<"Ϥ">>, <<"ϥ">>, <<"Ϧ">>, <<"ϧ">>, <<"Ϩ">>, <<"ϩ">>, <<"Ϫ">>, <<"ϫ">>, <<"Ϭ">>, <<"ϭ">>,
     <<"Ϯ">>, <<"ϯ">>, <<"ϰ">>, <<"ϱ">>, <<"ϲ">>, <<"ϳ">>, <<"ϴ">>, <<"ϵ">>, <<"Ϸ">>, <<"ϸ">>,
     <<"Ϲ">>, <<"Ϻ">>, <<"ϻ">>, <<"ϼ">>, <<"Ͻ">>, <<"Ͼ">>, <<"Ͽ">>, <<"\\u0400">>, <<"\\u0401">>,
     <<"\\u0402">>, <<"\\u0403">>, <<"\\u0404">>, <<"\\u0405">>, <<"\\u0406">>, <<"\\u0407">>,
     <<"\\u0408">>, <<"\\u0409">>, <<"\\u040a">>, <<"\\u040b">>, <<"\\u040c">>, <<"\\u040d">>,
     <<"\\u040e">>, <<"\\u040f">>, <<"\\u0410">>, <<"\\u0411">>, <<"\\u0412">>, <<"\\u0413">>,
     <<"\\u0414">>, <<"\\u0415">>, <<"\\u0416">>, <<"\\u0417">>, <<"\\u0418">>, <<"\\u0419">>,
     <<"\\u041a">>, <<"\\u041b">>, <<"\\u041c">>, <<"\\u041d">>, <<"\\u041e">>, <<"\\u041f">>,
     <<"\\u0420">>, <<"\\u0421">>, <<"\\u0422">>, <<"\\u0423">>, <<"\\u0424">>, <<"\\u0425">>,
     <<"\\u0426">>, <<"\\u0427">>, <<"\\u0428">>, <<"\\u0429">>, <<"\\u042a">>, <<"\\u042b">>,
     <<"\\u042c">>, <<"\\u042d">>, <<"\\u042e">>, <<"\\u042f">>, <<"\\u0430">>, <<"\\u0431">>,
     <<"\\u0432">>, <<"\\u0433">>, <<"\\u0434">>, <<"\\u0435">>, <<"\\u0436">>, <<"\\u0437">>,
     <<"\\u0438">>, <<"\\u0439">>, <<"\\u043a">>, <<"\\u043b">>, <<"\\u043c">>, <<"\\u043d">>,
     <<"\\u043e">>, <<"\\u043f">>, <<"\\u0440">>, <<"\\u0441">>, <<"\\u0442">>, <<"\\u0443">>,
     <<"\\u0444">>, <<"\\u0445">>, <<"\\u0446">>, <<"\\u0447">>, <<"\\u0448">>, <<"\\u0449">>,
     <<"\\u044a">>, <<"\\u044b">>, <<"\\u044c">>, <<"\\u044d">>, <<"\\u044e">>, <<"\\u044f">>,
     <<"\\u0450">>, <<"\\u0451">>, <<"\\u0452">>, <<"\\u0453">>, <<"\\u0454">>, <<"\\u0455">>,
     <<"\\u0456">>, <<"\\u0457">>, <<"\\u0458">>, <<"\\u0459">>, <<"\\u045a">>, <<"\\u045b">>,
     <<"\\u045c">>, <<"\\u045d">>, <<"\\u045e">>, <<"\\u045f">>, <<"\\u0460">>, <<"\\u0461">>,
     <<"\\u0462">>, <<"\\u0463">>, <<"\\u0464">>, <<"\\u0465">>, <<"\\u0466">>, <<"\\u0467">>,
     <<"\\u0468">>, <<"\\u0469">>, <<"\\u046a">>, <<"\\u046b">>, <<"\\u046c">>, <<"\\u046d">>,
     <<"\\u046e">>, <<"\\u046f">>, <<"\\u0470">>, <<"\\u0471">>, <<"\\u0472">>, <<"\\u0473">>,
     <<"\\u0474">>, <<"\\u0475">>, <<"\\u0476">>, <<"\\u0477">>, <<"\\u0478">>, <<"\\u0479">>,
     <<"\\u047a">>, <<"\\u047b">>, <<"\\u047c">>, <<"\\u047d">>, <<"\\u047e">>, <<"\\u047f">>,
     <<"Ҁ">>, <<"ҁ">>, <<"Ҋ">>, <<"ҋ">>, <<"Ҍ">>, <<"ҍ">>, <<"Ҏ">>, <<"ҏ">>, <<"Ґ">>, <<"ґ">>,
     <<"Ғ">>, <<"ғ">>, <<"Ҕ">>, <<"ҕ">>, <<"Җ">>, <<"җ">>, <<"Ҙ">>, <<"ҙ">>, <<"Қ">>, <<"қ">>,
     <<"Ҝ">>, <<"ҝ">>, <<"Ҟ">>, <<"ҟ">>, <<"Ҡ">>, <<"ҡ">>, <<"Ң">>, <<"ң">>, <<"Ҥ">>, <<"ҥ">>,
     <<"Ҧ">>, <<"ҧ">>, <<"Ҩ">>, <<"ҩ">>, <<"Ҫ">>, <<"ҫ">>, <<"Ҭ">>, <<"ҭ">>, <<"Ү">>, <<"ү">>,
     <<"Ұ">>, <<"ұ">>, <<"Ҳ">>, <<"ҳ">>, <<"Ҵ">>, <<"ҵ">>, <<"Ҷ">>, <<"ҷ">>, <<"Ҹ">>, <<"ҹ">>,
     <<"Һ">>, <<"һ">>, <<"Ҽ">>, <<"ҽ">>, <<"Ҿ">>, <<"ҿ">>, <<"Ӏ">>, <<"Ӂ">>, <<"ӂ">>, <<"Ӄ">>,
     <<"ӄ">>, <<"Ӆ">>, <<"ӆ">>, <<"Ӈ">>, <<"ӈ">>, <<"Ӊ">>, <<"ӊ">>, <<"Ӌ">>, <<"ӌ">>, <<"Ӎ">>,
     <<"ӎ">>, <<"ӏ">>, <<"Ӑ">>, <<"ӑ">>, <<"Ӓ">>, <<"ӓ">>, <<"Ӕ">>, <<"ӕ">>, <<"Ӗ">>, <<"ӗ">>,
     <<"Ә">>, <<"ә">>, <<"Ӛ">>, <<"ӛ">>, <<"Ӝ">>, <<"ӝ">>, <<"Ӟ">>, <<"ӟ">>, <<"Ӡ">>, <<"ӡ">>,
     <<"Ӣ">>, <<"ӣ">>, <<"Ӥ">>, <<"ӥ">>, <<"Ӧ">>, <<"ӧ">>, <<"Ө">>, <<"ө">>, <<"Ӫ">>, <<"ӫ">>,
     <<"Ӭ">>, <<"ӭ">>, <<"Ӯ">>, <<"ӯ">>, <<"Ӱ">>, <<"ӱ">>, <<"Ӳ">>, <<"ӳ">>, <<"Ӵ">>, <<"ӵ">>,
     <<"Ӷ">>, <<"ӷ">>, <<"Ӹ">>, <<"ӹ">>, <<"Ӻ">>, <<"ӻ">>, <<"Ӽ">>, <<"ӽ">>, <<"Ӿ">>, <<"ӿ">>,
     <<"\\u0500">>, <<"\\u0501">>, <<"\\u0502">>, <<"\\u0503">>, <<"\\u0504">>, <<"\\u0505">>,
     <<"\\u0506">>, <<"\\u0507">>, <<"\\u0508">>, <<"\\u0509">>, <<"\\u050a">>, <<"\\u050b">>,
     <<"\\u050c">>, <<"\\u050d">>, <<"\\u050e">>, <<"\\u050f">>, <<"\\u0510">>, <<"\\u0511">>,
     <<"\\u0512">>, <<"\\u0513">>, <<"\\u0514">>, <<"\\u0515">>, <<"\\u0516">>, <<"\\u0517">>,
     <<"\\u0518">>, <<"\\u0519">>, <<"\\u051a">>, <<"\\u051b">>, <<"\\u051c">>, <<"\\u051d">>,
     <<"\\u051e">>, <<"\\u051f">>, <<"\\u0520">>, <<"\\u0521">>, <<"\\u0522">>, <<"\\u0523">>,
     <<"\\u0524">>, <<"\\u0525">>, <<"\\u0526">>, <<"\\u0527">>, <<"\\u0528">>, <<"\\u0529">>,
     <<"\\u052a">>, <<"\\u052b">>, <<"\\u052c">>, <<"\\u052d">>, <<"\\u052e">>, <<"\\u052f">>,
     <<"\\u0531">>, <<"\\u0532">>, <<"\\u0533">>, <<"\\u0534">>, <<"\\u0535">>, <<"\\u0536">>,
     <<"\\u0537">>, <<"\\u0538">>, <<"\\u0539">>, <<"\\u053a">>, <<"\\u053b">>, <<"\\u053c">>,
     <<"\\u053d">>, <<"\\u053e">>, <<"\\u053f">>, <<"\\u0540">>, <<"\\u0541">>, <<"\\u0542">>,
     <<"\\u0543">>, <<"\\u0544">>, <<"\\u0545">>, <<"\\u0546">>, <<"\\u0547">>, <<"\\u0548">>,
     <<"\\u0549">>, <<"\\u054a">>, <<"\\u054b">>, <<"\\u054c">>, <<"\\u054d">>, <<"\\u054e">>,
     <<"\\u054f">>, <<"\\u0550">>, <<"\\u0551">>, <<"\\u0552">>, <<"\\u0553">>, <<"\\u0554">>,
     <<"\\u0555">>, <<"\\u0556">>, <<"\\u0560">>, <<"\\u0561">>, <<"\\u0562">>, <<"\\u0563">>,
     <<"\\u0564">>, <<"\\u0565">>, <<"\\u0566">>, <<"\\u0567">>, <<"\\u0568">>, <<"\\u0569">>,
     <<"\\u056a">>, <<"\\u056b">>, <<"\\u056c">>, <<"\\u056d">>, <<"\\u056e">>, <<"\\u056f">>,
     <<"\\u0570">>, <<"\\u0571">>, <<"\\u0572">>, <<"\\u0573">>, <<"\\u0574">>, <<"\\u0575">>,
     <<"\\u0576">>, <<"\\u0577">>, <<"\\u0578">>, <<"\\u0579">>, <<"\\u057a">>, <<"\\u057b">>,
     <<"\\u057c">>, <<"\\u057d">>, <<"\\u057e">>, <<"\\u057f">>, <<"ր">>, <<"ց">>, <<"ւ">>,
     <<"փ">>, <<"ք">>, <<"օ">>, <<"ֆ">>, <<"և">>, <<"ֈ">>, <<"Ⴀ">>, <<"Ⴁ">>, <<"Ⴂ">>, <<"Ⴃ">>,
     <<"Ⴄ">>, <<"Ⴅ">>, <<"Ⴆ">>, <<"Ⴇ">>, <<"Ⴈ">>, <<"Ⴉ">>, <<"Ⴊ">>, <<"Ⴋ">>, <<"Ⴌ">>, <<"Ⴍ">>,
     <<"Ⴎ">>, <<"Ⴏ">>, <<"Ⴐ">>, <<"Ⴑ">>, <<"Ⴒ">>, <<"Ⴓ">>, <<"Ⴔ">>, <<"Ⴕ">>, <<"Ⴖ">>, <<"Ⴗ">>,
     <<"Ⴘ">>, <<"Ⴙ">>, <<"Ⴚ">>, <<"Ⴛ">>, <<"Ⴜ">>, <<"Ⴝ">>, <<"Ⴞ">>, <<"Ⴟ">>, <<"Ⴠ">>, <<"Ⴡ">>,
     <<"Ⴢ">>, <<"Ⴣ">>, <<"Ⴤ">>, <<"Ⴥ">>, <<"Ⴧ">>, <<"Ⴭ">>, <<"ა">>, <<"ბ">>, <<"გ">>, <<"დ">>,
     <<"ე">>, <<"ვ">>, <<"ზ">>, <<"თ">>, <<"ი">>, <<"კ">>, <<"ლ">>, <<"მ">>, <<"ნ">>, <<"ო">>,
     <<"პ">>, <<"ჟ">>, <<"რ">>, <<"ს">>, <<"ტ">>, <<"უ">>, <<"ფ">>, <<"ქ">>, <<"ღ">>, <<"ყ">>,
     <<"შ">>, <<"ჩ">>, <<"ც">>, <<"ძ">>, <<"წ">>, <<"ჭ">>, <<"ხ">>, <<"ჯ">>, <<"ჰ">>, <<"ჱ">>,
     <<"ჲ">>, <<"ჳ">>, <<"ჴ">>, <<"ჵ">>, <<"ჶ">>, <<"ჷ">>, <<"ჸ">>, <<"ჹ">>, <<"ჺ">>, <<"ჽ">>,
     <<"ჾ">>, <<"ჿ">>, <<"Ꭰ">>, <<"Ꭱ">>, <<"Ꭲ">>, <<"Ꭳ">>, <<"Ꭴ">>, <<"Ꭵ">>, <<"Ꭶ">>, <<"Ꭷ">>,
     <<"Ꭸ">>, <<"Ꭹ">>, <<"Ꭺ">>, <<"Ꭻ">>, <<"Ꭼ">>, <<"Ꭽ">>, <<"Ꭾ">>, <<"Ꭿ">>, <<"Ꮀ">>, <<"Ꮁ">>,
     <<"Ꮂ">>, <<"Ꮃ">>, <<"Ꮄ">>, <<"Ꮅ">>, <<"Ꮆ">>, <<"Ꮇ">>, <<"Ꮈ">>, <<"Ꮉ">>, <<"Ꮊ">>, <<"Ꮋ">>,
     <<"Ꮌ">>, <<"Ꮍ">>, <<"Ꮎ">>, <<"Ꮏ">>, <<"Ꮐ">>, <<"Ꮑ">>, <<"Ꮒ">>, <<"Ꮓ">>, <<"Ꮔ">>, <<"Ꮕ">>,
     <<"Ꮖ">>, <<"Ꮗ">>, <<"Ꮘ">>, <<"Ꮙ">>, <<"Ꮚ">>, <<"Ꮛ">>, <<"Ꮜ">>, <<"Ꮝ">>, <<"Ꮞ">>, <<"Ꮟ">>,
     <<"Ꮠ">>, <<"Ꮡ">>, <<"Ꮢ">>, <<"Ꮣ">>, <<"Ꮤ">>, <<"Ꮥ">>, <<"Ꮦ">>, <<"Ꮧ">>, <<"Ꮨ">>, <<"Ꮩ">>,
     <<"Ꮪ">>, <<"Ꮫ">>, <<"Ꮬ">>, <<"Ꮭ">>, <<"Ꮮ">>, <<"Ꮯ">>, <<"Ꮰ">>, <<"Ꮱ">>, <<"Ꮲ">>, <<"Ꮳ">>,
     <<"Ꮴ">>, <<"Ꮵ">>, <<"Ꮶ">>, <<"Ꮷ">>, <<"Ꮸ">>, <<"Ꮹ">>, <<"Ꮺ">>, <<"Ꮻ">>, <<"Ꮼ">>, <<"Ꮽ">>,
     <<"Ꮾ">>, <<"Ꮿ">>, <<"Ᏸ">>, <<"Ᏹ">>, <<"Ᏺ">>, <<"Ᏻ">>, <<"Ᏼ">>, <<"Ᏽ">>, <<"ᏸ">>, <<"ᏹ">>,
     <<"ᏺ">>, <<"ᏻ">>, <<"ᏼ">>, <<"ᏽ">>, <<"ᲀ">>, <<"ᲁ">>, <<"ᲂ">>, <<"ᲃ">>, <<"ᲄ">>, <<"ᲅ">>,
     <<"ᲆ">>, <<"ᲇ">>, <<"ᲈ">>, <<"Ᲊ">>, <<"ᲊ">>, <<"Ა">>, <<"Ბ">>, <<"Გ">>, <<"Დ">>, <<"Ე">>,
     <<"Ვ">>, <<"Ზ">>, <<"Თ">>, <<"Ი">>, <<"Კ">>, <<"Ლ">>, <<"Მ">>, <<"Ნ">>, <<"Ო">>, <<"Პ">>,
     <<"Ჟ">>, <<"Რ">>, <<"Ს">>, <<"Ტ">>, <<"Უ">>, <<"Ფ">>, <<"Ქ">>, <<"Ღ">>, <<"Ყ">>, <<"Შ">>,
     <<"Ჩ">>, <<"Ც">>, <<"Ძ">>, <<"Წ">>, <<"Ჭ">>, <<"Ხ">>, <<"Ჯ">>, <<"Ჰ">>, <<"Ჱ">>, <<"Ჲ">>,
     <<"Ჳ">>, <<"Ჴ">>, <<"Ჵ">>, <<"Ჶ">>, <<"Ჷ">>, <<"Ჸ">>, <<"Ჹ">>, <<"Ჺ">>, <<"Ჽ">>, <<"Ჾ">>,
     <<"Ჿ">>, <<"\\u1d00">>, <<"\\u1d01">>, <<"\\u1d02">>, <<"\\u1d03">>, <<"\\u1d04">>,
     <<"\\u1d05">>, <<"\\u1d06">>, <<"\\u1d07">>, <<"\\u1d08">>, <<"\\u1d09">>, <<"\\u1d0a">>,
     <<"\\u1d0b">>, <<"\\u1d0c">>, <<"\\u1d0d">>, <<"\\u1d0e">>, <<"\\u1d0f">>, <<"\\u1d10">>,
     <<"\\u1d11">>, <<"\\u1d12">>, <<"\\u1d13">>, <<"\\u1d14">>, <<"\\u1d15">>, <<"\\u1d16">>,
     <<"\\u1d17">>, <<"\\u1d18">>, <<"\\u1d19">>, <<"\\u1d1a">>, <<"\\u1d1b">>, <<"\\u1d1c">>,
     <<"\\u1d1d">>, <<"\\u1d1e">>, <<"\\u1d1f">>, <<"\\u1d20">>, <<"\\u1d21">>, <<"\\u1d22">>,
     <<"\\u1d23">>, <<"\\u1d24">>, <<"\\u1d25">>, <<"\\u1d26">>, <<"\\u1d27">>, <<"\\u1d28">>,
     <<"\\u1d29">>, <<"\\u1d2a">>, <<"\\u1d2b">>, <<"\\u1d6b">>, <<"\\u1d6c">>, <<"\\u1d6d">>,
     <<"\\u1d6e">>, <<"\\u1d6f">>, <<"\\u1d70">>, <<"\\u1d71">>, <<"\\u1d72">>, <<"\\u1d73">>,
     <<"\\u1d74">>, <<"\\u1d75">>, <<"\\u1d76">>, <<"\\u1d77">>, <<"\\u1d79">>, <<"\\u1d7a">>,
     <<"\\u1d7b">>, <<"\\u1d7c">>, <<"\\u1d7d">>, <<"\\u1d7e">>, <<"\\u1d7f">>, <<"ᶀ">>, <<"ᶁ">>,
     <<"ᶂ">>, <<"ᶃ">>, <<"ᶄ">>, <<"ᶅ">>, <<"ᶆ">>, <<"ᶇ">>, <<"ᶈ">>, <<"ᶉ">>, <<"ᶊ">>, <<"ᶋ">>,
     <<"ᶌ">>, <<"ᶍ">>, <<"ᶎ">>, <<"ᶏ">>, <<"ᶐ">>, <<"ᶑ">>, <<"ᶒ">>, <<"ᶓ">>, <<"ᶔ">>, <<"ᶕ">>,
     <<"ᶖ">>, <<"ᶗ">>, <<"ᶘ">>, <<"ᶙ">>, <<"ᶚ">>, <<"\\u1e00">>, <<"\\u1e01">>, <<"\\u1e02">>,
     <<"\\u1e03">>, <<"\\u1e04">>, <<"\\u1e05">>, <<"\\u1e06">>, <<"\\u1e07">>, <<"\\u1e08">>,
     <<"\\u1e09">>, <<"\\u1e0a">>, <<"\\u1e0b">>, <<"\\u1e0c">>, <<"\\u1e0d">>, <<"\\u1e0e">>,
     <<"\\u1e0f">>, <<"\\u1e10">>, <<"\\u1e11">>, <<"\\u1e12">>, <<"\\u1e13">>, <<"\\u1e14">>,
     <<"\\u1e15">>, <<"\\u1e16">>, <<"\\u1e17">>, <<"\\u1e18">>, <<"\\u1e19">>, <<"\\u1e1a">>,
     <<"\\u1e1b">>, <<"\\u1e1c">>, <<"\\u1e1d">>, <<"\\u1e1e">>, <<"\\u1e1f">>, <<"\\u1e20">>,
     <<"\\u1e21">>, <<"\\u1e22">>, <<"\\u1e23">>, <<"\\u1e24">>, <<"\\u1e25">>, <<"\\u1e26">>,
     <<"\\u1e27">>, <<"\\u1e28">>, <<"\\u1e29">>, <<"\\u1e2a">>, <<"\\u1e2b">>, <<"\\u1e2c">>,
     <<"\\u1e2d">>, <<"\\u1e2e">>, <<"\\u1e2f">>, <<"\\u1e30">>, <<"\\u1e31">>, <<"\\u1e32">>,
     <<"\\u1e33">>, <<"\\u1e34">>, <<"\\u1e35">>, <<"\\u1e36">>, <<"\\u1e37">>, <<"\\u1e38">>,
     <<"\\u1e39">>, <<"\\u1e3a">>, <<"\\u1e3b">>, <<"\\u1e3c">>, <<"\\u1e3d">>, <<"\\u1e3e">>,
     <<"\\u1e3f">>, <<"\\u1e40">>, <<"\\u1e41">>, <<"\\u1e42">>, <<"\\u1e43">>, <<"\\u1e44">>,
     <<"\\u1e45">>, <<"\\u1e46">>, <<"\\u1e47">>, <<"\\u1e48">>, <<"\\u1e49">>, <<"\\u1e4a">>,
     <<"\\u1e4b">>, <<"\\u1e4c">>, <<"\\u1e4d">>, <<"\\u1e4e">>, <<"\\u1e4f">>, <<"\\u1e50">>,
     <<"\\u1e51">>, <<"\\u1e52">>, <<"\\u1e53">>, <<"\\u1e54">>, <<"\\u1e55">>, <<"\\u1e56">>,
     <<"\\u1e57">>, <<"\\u1e58">>, <<"\\u1e59">>, <<"\\u1e5a">>, <<"\\u1e5b">>, <<"\\u1e5c">>,
     <<"\\u1e5d">>, <<"\\u1e5e">>, <<"\\u1e5f">>, <<"\\u1e60">>, <<"\\u1e61">>, <<"\\u1e62">>,
     <<"\\u1e63">>, <<"\\u1e64">>, <<"\\u1e65">>, <<"\\u1e66">>, <<"\\u1e67">>, <<"\\u1e68">>,
     <<"\\u1e69">>, <<"\\u1e6a">>, <<"\\u1e6b">>, <<"\\u1e6c">>, <<"\\u1e6d">>, <<"\\u1e6e">>,
     <<"\\u1e6f">>, <<"\\u1e70">>, <<"\\u1e71">>, <<"\\u1e72">>, <<"\\u1e73">>, <<"\\u1e74">>,
     <<"\\u1e75">>, <<"\\u1e76">>, <<"\\u1e77">>, <<"\\u1e78">>, <<"\\u1e79">>, <<"\\u1e7a">>,
     <<"\\u1e7b">>, <<"\\u1e7c">>, <<"\\u1e7d">>, <<"\\u1e7e">>, <<"\\u1e7f">>, <<"Ẁ">>, <<"ẁ">>,
     <<"Ẃ">>, <<"ẃ">>, <<"Ẅ">>, <<"ẅ">>, <<"Ẇ">>, <<"ẇ">>, <<"Ẉ">>, <<"ẉ">>, <<"Ẋ">>, <<"ẋ">>,
     <<"Ẍ">>, <<"ẍ">>, <<"Ẏ">>, <<"ẏ">>, <<"Ẑ">>, <<"ẑ">>, <<"Ẓ">>, <<"ẓ">>, <<"Ẕ">>, <<"ẕ">>,
     <<"ẖ">>, <<"ẗ">>, <<"ẘ">>, <<"ẙ">>, <<"ẚ">>, <<"ẛ">>, <<"ẜ">>, <<"ẝ">>, <<"ẞ">>, <<"ẟ">>,
     <<"Ạ">>, <<"ạ">>, <<"Ả">>, <<"ả">>, <<"Ấ">>, <<"ấ">>, <<"Ầ">>, <<"ầ">>, <<"Ẩ">>, <<"ẩ">>,
     <<"Ẫ">>, <<"ẫ">>, <<"Ậ">>, <<"ậ">>, <<"Ắ">>, <<"ắ">>, <<"Ằ">>, <<"ằ">>, <<"Ẳ">>, <<"ẳ">>,
     <<"Ẵ">>, <<"ẵ">>, <<"Ặ">>, <<"ặ">>, <<"Ẹ">>, <<"ẹ">>, <<"Ẻ">>, <<"ẻ">>, <<"Ẽ">>, <<"ẽ">>,
     <<"Ế">>, <<"ế">>, <<"Ề">>, <<"ề">>, <<"Ể">>, <<"ể">>, <<"Ễ">>, <<"ễ">>, <<"Ệ">>, <<"ệ">>,
     <<"Ỉ">>, <<"ỉ">>, <<"Ị">>, <<"ị">>, <<"Ọ">>, <<"ọ">>, <<"Ỏ">>, <<"ỏ">>, <<"Ố">>, <<"ố">>,
     <<"Ồ">>, <<"ồ">>, <<"Ổ">>, <<"ổ">>, <<"Ỗ">>, <<"ỗ">>, <<"Ộ">>, <<"ộ">>, <<"Ớ">>, <<"ớ">>,
     <<"Ờ">>, <<"ờ">>, <<"Ở">>, <<"ở">>, <<"Ỡ">>, <<"ỡ">>, <<"Ợ">>, <<"ợ">>, <<"Ụ">>, <<"ụ">>,
     <<"Ủ">>, <<"ủ">>, <<"Ứ">>, <<"ứ">>, <<"Ừ">>, <<"ừ">>, <<"Ử">>, <<"ử">>, <<"Ữ">>, <<"ữ">>,
     <<"Ự">>, <<"ự">>, <<"Ỳ">>, <<"ỳ">>, <<"Ỵ">>, <<"ỵ">>, <<"Ỷ">>, <<"ỷ">>, <<"Ỹ">>, <<"ỹ">>,
     <<"Ỻ">>, <<"ỻ">>, <<"Ỽ">>, <<"ỽ">>, <<"Ỿ">>, <<"ỿ">>, <<"\\u1f00">>, <<"\\u1f01">>,
     <<"\\u1f02">>, <<"\\u1f03">>, <<"\\u1f04">>, <<"\\u1f05">>, <<"\\u1f06">>, <<"\\u1f07">>,
     <<"\\u1f08">>, <<"\\u1f09">>, <<"\\u1f0a">>, <<"\\u1f0b">>, <<"\\u1f0c">>, <<"\\u1f0d">>,
     <<"\\u1f0e">>, <<"\\u1f0f">>, <<"\\u1f10">>, <<"\\u1f11">>, <<"\\u1f12">>, <<"\\u1f13">>,
     <<"\\u1f14">>, <<"\\u1f15">>, <<"\\u1f18">>, <<"\\u1f19">>, <<"\\u1f1a">>, <<"\\u1f1b">>,
     <<"\\u1f1c">>, <<"\\u1f1d">>, <<"\\u1f20">>, <<"\\u1f21">>, <<"\\u1f22">>, <<"\\u1f23">>,
     <<"\\u1f24">>, <<"\\u1f25">>, <<"\\u1f26">>, <<"\\u1f27">>, <<"\\u1f28">>, <<"\\u1f29">>,
     <<"\\u1f2a">>, <<"\\u1f2b">>, <<"\\u1f2c">>, <<"\\u1f2d">>, <<"\\u1f2e">>, <<"\\u1f2f">>,
     <<"\\u1f30">>, <<"\\u1f31">>, <<"\\u1f32">>, <<"\\u1f33">>, <<"\\u1f34">>, <<"\\u1f35">>,
     <<"\\u1f36">>, <<"\\u1f37">>, <<"\\u1f38">>, <<"\\u1f39">>, <<"\\u1f3a">>, <<"\\u1f3b">>,
     <<"\\u1f3c">>, <<"\\u1f3d">>, <<"\\u1f3e">>, <<"\\u1f3f">>, <<"\\u1f40">>, <<"\\u1f41">>,
     <<"\\u1f42">>, <<"\\u1f43">>, <<"\\u1f44">>, <<"\\u1f45">>, <<"\\u1f48">>, <<"\\u1f49">>,
     <<"\\u1f4a">>, <<"\\u1f4b">>, <<"\\u1f4c">>, <<"\\u1f4d">>, <<"\\u1f50">>, <<"\\u1f51">>,
     <<"\\u1f52">>, <<"\\u1f53">>, <<"\\u1f54">>, <<"\\u1f55">>, <<"\\u1f56">>, <<"\\u1f57">>,
     <<"\\u1f59">>, <<"\\u1f5b">>, <<"\\u1f5d">>, <<"\\u1f5f">>, <<"\\u1f60">>, <<"\\u1f61">>,
     <<"\\u1f62">>, <<"\\u1f63">>, <<"\\u1f64">>, <<"\\u1f65">>, <<"\\u1f66">>, <<"\\u1f67">>,
     <<"\\u1f68">>, <<"\\u1f69">>, <<"\\u1f6a">>, <<"\\u1f6b">>, <<"\\u1f6c">>, <<"\\u1f6d">>,
     <<"\\u1f6e">>, <<"\\u1f6f">>, <<"\\u1f70">>, <<"\\u1f71">>, <<"\\u1f72">>, <<"\\u1f73">>,
     <<"\\u1f74">>, <<"\\u1f75">>, <<"\\u1f76">>, <<"\\u1f77">>, <<"\\u1f78">>, <<"\\u1f79">>,
     <<"\\u1f7a">>, <<"\\u1f7b">>, <<"\\u1f7c">>, <<"\\u1f7d">>, <<"ᾀ">>, <<"ᾁ">>, <<"ᾂ">>,
     <<"ᾃ">>, <<"ᾄ">>, <<"ᾅ">>, <<"ᾆ">>, <<"ᾇ">>, <<"ᾈ">>, <<"ᾉ">>, <<"ᾊ">>, <<"ᾋ">>, <<"ᾌ">>,
     <<"ᾍ">>, <<"ᾎ">>, <<"ᾏ">>, <<"ᾐ">>, <<"ᾑ">>, <<"ᾒ">>, <<"ᾓ">>, <<"ᾔ">>, <<"ᾕ">>, <<"ᾖ">>,
     <<"ᾗ">>, <<"ᾘ">>, <<"ᾙ">>, <<"ᾚ">>, <<"ᾛ">>, <<"ᾜ">>, <<"ᾝ">>, <<"ᾞ">>, <<"ᾟ">>, <<"ᾠ">>,
     <<"ᾡ">>, <<"ᾢ">>, <<"ᾣ">>, <<"ᾤ">>, <<"ᾥ">>, <<"ᾦ">>, <<"ᾧ">>, <<"ᾨ">>, <<"ᾩ">>, <<"ᾪ">>,
     <<"ᾫ">>, <<"ᾬ">>, <<"ᾭ">>, <<"ᾮ">>, <<"ᾯ">>, <<"ᾰ">>, <<"ᾱ">>, <<"ᾲ">>, <<"ᾳ">>, <<"ᾴ">>,
     <<"ᾶ">>, <<"ᾷ">>, <<"Ᾰ">>, <<"Ᾱ">>, <<"Ὰ">>, <<"Ά">>, <<"ᾼ">>, <<"ι">>, <<"ῂ">>, <<"ῃ">>,
     <<"ῄ">>, <<"ῆ">>, <<"ῇ">>, <<"Ὲ">>, <<"Έ">>, <<"Ὴ">>, <<"Ή">>, <<"ῌ">>, <<"ῐ">>, <<"ῑ">>,
     <<"ῒ">>, <<"ΐ">>, <<"ῖ">>, <<"ῗ">>, <<"Ῐ">>, <<"Ῑ">>, <<"Ὶ">>, <<"Ί">>, <<"ῠ">>, <<"ῡ">>,
     <<"ῢ">>, <<"ΰ">>, <<"ῤ">>, <<"ῥ">>, <<"ῦ">>, <<"ῧ">>, <<"Ῠ">>, <<"Ῡ">>, <<"Ὺ">>, <<"Ύ">>,
     <<"Ῥ">>, <<"ῲ">>, <<"ῳ">>, <<"ῴ">>, <<"ῶ">>, <<"ῷ">>, <<"Ὸ">>, <<"Ό">>, <<"Ὼ">>, <<"Ώ">>,
     <<"ῼ">>, <<"\\u2102">>, <<"\\u2107">>, <<"\\u210a">>, <<"\\u210b">>, <<"\\u210c">>,
     <<"\\u210d">>, <<"\\u210e">>, <<"\\u210f">>, <<"\\u2110">>, <<"\\u2111">>, <<"\\u2112">>,
     <<"\\u2113">>, <<"\\u2115">>, <<"\\u2119">>, <<"\\u211a">>, <<"\\u211b">>, <<"\\u211c">>,
     <<"\\u211d">>, <<"\\u2124">>, <<"\\u2126">>, <<"\\u2128">>, <<"\\u212a">>, <<"\\u212b">>,
     <<"\\u212c">>, <<"\\u212d">>, <<"\\u212f">>, <<"\\u2130">>, <<"\\u2131">>, <<"\\u2132">>,
     <<"\\u2133">>, <<"\\u2134">>, <<"\\u2139">>, <<"\\u213c">>, <<"\\u213d">>, <<"\\u213e">>,
     <<"\\u213f">>, <<"\\u2145">>, <<"\\u2146">>, <<"\\u2147">>, <<"\\u2148">>, <<"\\u2149">>,
     <<"\\u214e">>, <<"\\u2160">>, <<"\\u2161">>, <<"\\u2162">>, <<"\\u2163">>, <<"\\u2164">>,
     <<"\\u2165">>, <<"\\u2166">>, <<"\\u2167">>, <<"\\u2168">>, <<"\\u2169">>, <<"\\u216a">>,
     <<"\\u216b">>, <<"\\u216c">>, <<"\\u216d">>, <<"\\u216e">>, <<"\\u216f">>, <<"\\u2170">>,
     <<"\\u2171">>, <<"\\u2172">>, <<"\\u2173">>, <<"\\u2174">>, <<"\\u2175">>, <<"\\u2176">>,
     <<"\\u2177">>, <<"\\u2178">>, <<"\\u2179">>, <<"\\u217a">>, <<"\\u217b">>, <<"\\u217c">>,
     <<"\\u217d">>, <<"\\u217e">>, <<"\\u217f">>, <<"Ↄ">>, <<"ↄ">>, <<"Ⓐ">>, <<"Ⓑ">>, <<"Ⓒ">>,
     <<"Ⓓ">>, <<"Ⓔ">>, <<"Ⓕ">>, <<"Ⓖ">>, <<"Ⓗ">>, <<"Ⓘ">>, <<"Ⓙ">>, <<"Ⓚ">>, <<"Ⓛ">>, <<"Ⓜ">>,
     <<"Ⓝ">>, <<"Ⓞ">>, <<"Ⓟ">>, <<"Ⓠ">>, <<"Ⓡ">>, <<"Ⓢ">>, <<"Ⓣ">>, <<"Ⓤ">>, <<"Ⓥ">>, <<"Ⓦ">>,
     <<"Ⓧ">>, <<"Ⓨ">>, <<"Ⓩ">>, <<"ⓐ">>, <<"ⓑ">>, <<"ⓒ">>, <<"ⓓ">>, <<"ⓔ">>, <<"ⓕ">>, <<"ⓖ">>,
     <<"ⓗ">>, <<"ⓘ">>, <<"ⓙ">>, <<"ⓚ">>, <<"ⓛ">>, <<"ⓜ">>, <<"ⓝ">>, <<"ⓞ">>, <<"ⓟ">>, <<"ⓠ">>,
     <<"ⓡ">>, <<"ⓢ">>, <<"ⓣ">>, <<"ⓤ">>, <<"ⓥ">>, <<"ⓦ">>, <<"ⓧ">>, <<"ⓨ">>, <<"ⓩ">>,
     <<"\\u2c00">>, <<"\\u2c01">>, <<"\\u2c02">>, <<"\\u2c03">>, <<"\\u2c04">>, <<"\\u2c05">>,
     <<"\\u2c06">>, <<"\\u2c07">>, <<"\\u2c08">>, <<"\\u2c09">>, <<"\\u2c0a">>, <<"\\u2c0b">>,
     <<"\\u2c0c">>, <<"\\u2c0d">>, <<"\\u2c0e">>, <<"\\u2c0f">>, <<"\\u2c10">>, <<"\\u2c11">>,
     <<"\\u2c12">>, <<"\\u2c13">>, <<"\\u2c14">>, <<"\\u2c15">>, <<"\\u2c16">>, <<"\\u2c17">>,
     <<"\\u2c18">>, <<"\\u2c19">>, <<"\\u2c1a">>, <<"\\u2c1b">>, <<"\\u2c1c">>, <<"\\u2c1d">>,
     <<"\\u2c1e">>, <<"\\u2c1f">>, <<"\\u2c20">>, <<"\\u2c21">>, <<"\\u2c22">>, <<"\\u2c23">>,
     <<"\\u2c24">>, <<"\\u2c25">>, <<"\\u2c26">>, <<"\\u2c27">>, <<"\\u2c28">>, <<"\\u2c29">>,
     <<"\\u2c2a">>, <<"\\u2c2b">>, <<"\\u2c2c">>, <<"\\u2c2d">>, <<"\\u2c2e">>, <<"\\u2c2f">>,
     <<"\\u2c30">>, <<"\\u2c31">>, <<"\\u2c32">>, <<"\\u2c33">>, <<"\\u2c34">>, <<"\\u2c35">>,
     <<"\\u2c36">>, <<"\\u2c37">>, <<"\\u2c38">>, <<"\\u2c39">>, <<"\\u2c3a">>, <<"\\u2c3b">>,
     <<"\\u2c3c">>, <<"\\u2c3d">>, <<"\\u2c3e">>, <<"\\u2c3f">>, <<"\\u2c40">>, <<"\\u2c41">>,
     <<"\\u2c42">>, <<"\\u2c43">>, <<"\\u2c44">>, <<"\\u2c45">>, <<"\\u2c46">>, <<"\\u2c47">>,
     <<"\\u2c48">>, <<"\\u2c49">>, <<"\\u2c4a">>, <<"\\u2c4b">>, <<"\\u2c4c">>, <<"\\u2c4d">>,
     <<"\\u2c4e">>, <<"\\u2c4f">>, <<"\\u2c50">>, <<"\\u2c51">>, <<"\\u2c52">>, <<"\\u2c53">>,
     <<"\\u2c54">>, <<"\\u2c55">>, <<"\\u2c56">>, <<"\\u2c57">>, <<"\\u2c58">>, <<"\\u2c59">>,
     <<"\\u2c5a">>, <<"\\u2c5b">>, <<"\\u2c5c">>, <<"\\u2c5d">>, <<"\\u2c5e">>, <<"\\u2c5f">>,
     <<"\\u2c60">>, <<"\\u2c61">>, <<"\\u2c62">>, <<"\\u2c63">>, <<"\\u2c64">>, <<"\\u2c65">>,
     <<"\\u2c66">>, <<"\\u2c67">>, <<"\\u2c68">>, <<"\\u2c69">>, <<"\\u2c6a">>, <<"\\u2c6b">>,
     <<"\\u2c6c">>, <<"\\u2c6d">>, <<"\\u2c6e">>, <<"\\u2c6f">>, <<"\\u2c70">>, <<"\\u2c71">>,
     <<"\\u2c72">>, <<"\\u2c73">>, <<"\\u2c74">>, <<"\\u2c75">>, <<"\\u2c76">>, <<"\\u2c77">>,
     <<"\\u2c78">>, <<"\\u2c79">>, <<"\\u2c7a">>, <<"\\u2c7b">>, <<"\\u2c7e">>, <<"\\u2c7f">>,
     <<"Ⲁ">>, <<"ⲁ">>, <<"Ⲃ">>, <<"ⲃ">>, <<"Ⲅ">>, <<"ⲅ">>, <<"Ⲇ">>, <<"ⲇ">>, <<"Ⲉ">>, <<"ⲉ">>,
     <<"Ⲋ">>, <<"ⲋ">>, <<"Ⲍ">>, <<"ⲍ">>, <<"Ⲏ">>, <<"ⲏ">>, <<"Ⲑ">>, <<"ⲑ">>, <<"Ⲓ">>, <<"ⲓ">>,
     <<"Ⲕ">>, <<"ⲕ">>, <<"Ⲗ">>, <<"ⲗ">>, <<"Ⲙ">>, <<"ⲙ">>, <<"Ⲛ">>, <<"ⲛ">>, <<"Ⲝ">>, <<"ⲝ">>,
     <<"Ⲟ">>, <<"ⲟ">>, <<"Ⲡ">>, <<"ⲡ">>, <<"Ⲣ">>, <<"ⲣ">>, <<"Ⲥ">>, <<"ⲥ">>, <<"Ⲧ">>, <<"ⲧ">>,
     <<"Ⲩ">>, <<"ⲩ">>, <<"Ⲫ">>, <<"ⲫ">>, <<"Ⲭ">>, <<"ⲭ">>, <<"Ⲯ">>, <<"ⲯ">>, <<"Ⲱ">>, <<"ⲱ">>,
     <<"Ⲳ">>, <<"ⲳ">>, <<"Ⲵ">>, <<"ⲵ">>, <<"Ⲷ">>, <<"ⲷ">>, <<"Ⲹ">>, <<"ⲹ">>, <<"Ⲻ">>, <<"ⲻ">>,
     <<"Ⲽ">>, <<"ⲽ">>, <<"Ⲿ">>, <<"ⲿ">>, <<"Ⳁ">>, <<"ⳁ">>, <<"Ⳃ">>, <<"ⳃ">>, <<"Ⳅ">>, <<"ⳅ">>,
     <<"Ⳇ">>, <<"ⳇ">>, <<"Ⳉ">>, <<"ⳉ">>, <<"Ⳋ">>, <<"ⳋ">>, <<"Ⳍ">>, <<"ⳍ">>, <<"Ⳏ">>, <<"ⳏ">>,
     <<"Ⳑ">>, <<"ⳑ">>, <<"Ⳓ">>, <<"ⳓ">>, <<"Ⳕ">>, <<"ⳕ">>, <<"Ⳗ">>, <<"ⳗ">>, <<"Ⳙ">>, <<"ⳙ">>,
     <<"Ⳛ">>, <<"ⳛ">>, <<"Ⳝ">>, <<"ⳝ">>, <<"Ⳟ">>, <<"ⳟ">>, <<"Ⳡ">>, <<"ⳡ">>, <<"Ⳣ">>, <<"ⳣ">>,
     <<"ⳤ">>, <<"Ⳬ">>, <<"ⳬ">>, <<"Ⳮ">>, <<"ⳮ">>, <<"Ⳳ">>, <<"ⳳ">>, <<"\\u2d00">>, <<"\\u2d01">>,
     <<"\\u2d02">>, <<"\\u2d03">>, <<"\\u2d04">>, <<"\\u2d05">>, <<"\\u2d06">>, <<"\\u2d07">>,
     <<"\\u2d08">>, <<"\\u2d09">>, <<"\\u2d0a">>, <<"\\u2d0b">>, <<"\\u2d0c">>, <<"\\u2d0d">>,
     <<"\\u2d0e">>, <<"\\u2d0f">>, <<"\\u2d10">>, <<"\\u2d11">>, <<"\\u2d12">>, <<"\\u2d13">>,
     <<"\\u2d14">>, <<"\\u2d15">>, <<"\\u2d16">>, <<"\\u2d17">>, <<"\\u2d18">>, <<"\\u2d19">>,
     <<"\\u2d1a">>, <<"\\u2d1b">>, <<"\\u2d1c">>, <<"\\u2d1d">>, <<"\\u2d1e">>, <<"\\u2d1f">>,
     <<"\\u2d20">>, <<"\\u2d21">>, <<"\\u2d22">>, <<"\\u2d23">>, <<"\\u2d24">>, <<"\\u2d25">>,
     <<"\\u2d27">>, <<"\\u2d2d">>, <<"\\ua640">>, <<"\\ua641">>, <<"\\ua642">>, <<"\\ua643">>,
     <<"\\ua644">>, <<"\\ua645">>, <<"\\ua646">>, <<"\\ua647">>, <<"\\ua648">>, <<"\\ua649">>,
     <<"\\ua64a">>, <<"\\ua64b">>, <<"\\ua64c">>, <<"\\ua64d">>, <<"\\ua64e">>, <<"\\ua64f">>,
     <<"\\ua650">>, <<"\\ua651">>, <<"\\ua652">>, <<"\\ua653">>, <<"\\ua654">>, <<"\\ua655">>,
     <<"\\ua656">>, <<"\\ua657">>, <<"\\ua658">>, <<"\\ua659">>, <<"\\ua65a">>, <<"\\ua65b">>,
     <<"\\ua65c">>, <<"\\ua65d">>, <<"\\ua65e">>, <<"\\ua65f">>, <<"\\ua660">>, <<"\\ua661">>,
     <<"\\ua662">>, <<"\\ua663">>, <<"\\ua664">>, <<"\\ua665">>, <<"\\ua666">>, <<"\\ua667">>,
     <<"\\ua668">>, <<"\\ua669">>, <<"\\ua66a">>, <<"\\ua66b">>, <<"\\ua66c">>, <<"\\ua66d">>,
     <<"Ꚁ">>, <<"ꚁ">>, <<"Ꚃ">>, <<"ꚃ">>, <<"Ꚅ">>, <<"ꚅ">>, <<"Ꚇ">>, <<"ꚇ">>, <<"Ꚉ">>, <<"ꚉ">>,
     <<"Ꚋ">>, <<"ꚋ">>, <<"Ꚍ">>, <<"ꚍ">>, <<"Ꚏ">>, <<"ꚏ">>, <<"Ꚑ">>, <<"ꚑ">>, <<"Ꚓ">>, <<"ꚓ">>,
     <<"Ꚕ">>, <<"ꚕ">>, <<"Ꚗ">>, <<"ꚗ">>, <<"Ꚙ">>, <<"ꚙ">>, <<"Ꚛ">>, <<"ꚛ">>, <<"\\ua722">>,
     <<"\\ua723">>, <<"\\ua724">>, <<"\\ua725">>, <<"\\ua726">>, <<"\\ua727">>, <<"\\ua728">>,
     <<"\\ua729">>, <<"\\ua72a">>, <<"\\ua72b">>, <<"\\ua72c">>, <<"\\ua72d">>, <<"\\ua72e">>,
     <<"\\ua72f">>, <<"\\ua730">>, <<"\\ua731">>, <<"\\ua732">>, <<"\\ua733">>, <<"\\ua734">>,
     <<"\\ua735">>, <<"\\ua736">>, <<"\\ua737">>, <<"\\ua738">>, <<"\\ua739">>, <<"\\ua73a">>,
     <<"\\ua73b">>, <<"\\ua73c">>, <<"\\ua73d">>, <<"\\ua73e">>, <<"\\ua73f">>, <<"\\ua740">>,
     <<"\\ua741">>, <<"\\ua742">>, <<"\\ua743">>, <<"\\ua744">>, <<"\\ua745">>, <<"\\ua746">>,
     <<"\\ua747">>, <<"\\ua748">>, <<"\\ua749">>, <<"\\ua74a">>, <<"\\ua74b">>, <<"\\ua74c">>,
     <<"\\ua74d">>, <<"\\ua74e">>, <<"\\ua74f">>, <<"\\ua750">>, <<"\\ua751">>, <<"\\ua752">>,
     <<"\\ua753">>, <<"\\ua754">>, <<"\\ua755">>, <<"\\ua756">>, <<"\\ua757">>, <<"\\ua758">>,
     <<"\\ua759">>, <<"\\ua75a">>, <<"\\ua75b">>, <<"\\ua75c">>, <<"\\ua75d">>, <<"\\ua75e">>,
     <<"\\ua75f">>, <<"\\ua760">>, <<"\\ua761">>, <<"\\ua762">>, <<"\\ua763">>, <<"\\ua764">>,
     <<"\\ua765">>, <<"\\ua766">>, <<"\\ua767">>, <<"\\ua768">>, <<"\\ua769">>, <<"\\ua76a">>,
     <<"\\ua76b">>, <<"\\ua76c">>, <<"\\ua76d">>, <<"\\ua76e">>, <<"\\ua76f">>, <<"\\ua771">>,
     <<"\\ua772">>, <<"\\ua773">>, <<"\\ua774">>, <<"\\ua775">>, <<"\\ua776">>, <<"\\ua777">>,
     <<"\\ua778">>, <<"\\ua779">>, <<"\\ua77a">>, <<"\\ua77b">>, <<"\\ua77c">>, <<"\\ua77d">>,
     <<"\\ua77e">>, <<"\\ua77f">>, <<"Ꞁ">>, <<"ꞁ">>, <<"Ꞃ">>, <<"ꞃ">>, <<"Ꞅ">>, <<"ꞅ">>, <<"Ꞇ">>,
     <<"ꞇ">>, <<"Ꞌ">>, <<"ꞌ">>, <<"Ɥ">>, <<"ꞎ">>, <<"Ꞑ">>, <<"ꞑ">>, <<"Ꞓ">>, <<"ꞓ">>, <<"ꞔ">>,
     <<"ꞕ">>, <<"Ꞗ">>, <<"ꞗ">>, <<"Ꞙ">>, <<"ꞙ">>, <<"Ꞛ">>, <<"ꞛ">>, <<"Ꞝ">>, <<"ꞝ">>, <<"Ꞟ">>,
     <<"ꞟ">>, <<"Ꞡ">>, <<"ꞡ">>, <<"Ꞣ">>, <<"ꞣ">>, <<"Ꞥ">>, <<"ꞥ">>, <<"Ꞧ">>, <<"ꞧ">>, <<"Ꞩ">>,
     <<"ꞩ">>, <<"Ɦ">>, <<"Ɜ">>, <<"Ɡ">>, <<"Ɬ">>, <<"Ɪ">>, <<"ꞯ">>, <<"Ʞ">>, <<"Ʇ">>, <<"Ʝ">>,
     <<"Ꭓ">>, <<"Ꞵ">>, <<"ꞵ">>, <<"Ꞷ">>, <<"ꞷ">>, <<"Ꞹ">>, <<"ꞹ">>, <<"Ꞻ">>, <<"ꞻ">>, <<"Ꞽ">>,
     <<"ꞽ">>, <<"Ꞿ">>, <<"ꞿ">>, <<"Ꟁ">>, <<"ꟁ">>, <<"Ꟃ">>, <<"ꟃ">>, <<"Ꞔ">>, <<"Ʂ">>, <<"Ᶎ">>,
     <<"Ꟈ">>, <<"ꟈ">>, <<"Ꟊ">>, <<"ꟊ">>, <<"Ɤ">>, <<"Ꟍ">>, <<"ꟍ">>, <<"꟎">>, <<"꟏">>, <<"Ꟑ">>,
     <<"ꟑ">>, <<"꟒">>, <<"ꟓ">>, <<"꟔">>, <<"ꟕ">>, <<"Ꟗ">>, <<"ꟗ">>, <<"Ꟙ">>, <<"ꟙ">>, <<"Ꟛ">>,
     <<"ꟛ">>, <<"Ƛ">>, <<"Ꟶ">>, <<"ꟶ">>, <<"ꟺ">>, <<"\\uab30">>, <<"\\uab31">>, <<"\\uab32">>,
     <<"\\uab33">>, <<"\\uab34">>, <<"\\uab35">>, <<"\\uab36">>, <<"\\uab37">>, <<"\\uab38">>,
     <<"\\uab39">>, <<"\\uab3a">>, <<"\\uab3b">>, <<"\\uab3c">>, <<"\\uab3d">>, <<"\\uab3e">>,
     <<"\\uab3f">>, <<"\\uab40">>, <<"\\uab41">>, <<"\\uab42">>, <<"\\uab43">>, <<"\\uab44">>,
     <<"\\uab45">>, <<"\\uab46">>, <<"\\uab47">>, <<"\\uab48">>, <<"\\uab49">>, <<"\\uab4a">>,
     <<"\\uab4b">>, <<"\\uab4c">>, <<"\\uab4d">>, <<"\\uab4e">>, <<"\\uab4f">>, <<"\\uab50">>,
     <<"\\uab51">>, <<"\\uab52">>, <<"\\uab53">>, <<"\\uab54">>, <<"\\uab55">>, <<"\\uab56">>,
     <<"\\uab57">>, <<"\\uab58">>, <<"\\uab59">>, <<"\\uab5a">>, <<"\\uab60">>, <<"\\uab61">>,
     <<"\\uab62">>, <<"\\uab63">>, <<"\\uab64">>, <<"\\uab65">>, <<"\\uab66">>, <<"\\uab67">>,
     <<"\\uab68">>, <<"\\uab70">>, <<"\\uab71">>, <<"\\uab72">>, <<"\\uab73">>, <<"\\uab74">>,
     <<"\\uab75">>, <<"\\uab76">>, <<"\\uab77">>, <<"\\uab78">>, <<"\\uab79">>, <<"\\uab7a">>,
     <<"\\uab7b">>, <<"\\uab7c">>, <<"\\uab7d">>, <<"\\uab7e">>, <<"\\uab7f">>, <<"ꮀ">>, <<"ꮁ">>,
     <<"ꮂ">>, <<"ꮃ">>, <<"ꮄ">>, <<"ꮅ">>, <<"ꮆ">>, <<"ꮇ">>, <<"ꮈ">>, <<"ꮉ">>, <<"ꮊ">>, <<"ꮋ">>,
     <<"ꮌ">>, <<"ꮍ">>, <<"ꮎ">>, <<"ꮏ">>, <<"ꮐ">>, <<"ꮑ">>, <<"ꮒ">>, <<"ꮓ">>, <<"ꮔ">>, <<"ꮕ">>,
     <<"ꮖ">>, <<"ꮗ">>, <<"ꮘ">>, <<"ꮙ">>, <<"ꮚ">>, <<"ꮛ">>, <<"ꮜ">>, <<"ꮝ">>, <<"ꮞ">>, <<"ꮟ">>,
     <<"ꮠ">>, <<"ꮡ">>, <<"ꮢ">>, <<"ꮣ">>, <<"ꮤ">>, <<"ꮥ">>, <<"ꮦ">>, <<"ꮧ">>, <<"ꮨ">>, <<"ꮩ">>,
     <<"ꮪ">>, <<"ꮫ">>, <<"ꮬ">>, <<"ꮭ">>, <<"ꮮ">>, <<"ꮯ">>, <<"ꮰ">>, <<"ꮱ">>, <<"ꮲ">>, <<"ꮳ">>,
     <<"ꮴ">>, <<"ꮵ">>, <<"ꮶ">>, <<"ꮷ">>, <<"ꮸ">>, <<"ꮹ">>, <<"ꮺ">>, <<"ꮻ">>, <<"ꮼ">>, <<"ꮽ">>,
     <<"ꮾ">>, <<"ꮿ">>, <<"\\ufb00">>, <<"\\ufb01">>, <<"\\ufb02">>, <<"\\ufb03">>, <<"\\ufb04">>,
     <<"\\ufb05">>, <<"\\ufb06">>, <<"\\ufb13">>, <<"\\ufb14">>, <<"\\ufb15">>, <<"\\ufb16">>,
     <<"\\ufb17">>, <<"\\uff21">>, <<"\\uff22">>, <<"\\uff23">>, <<"\\uff24">>, <<"\\uff25">>,
     <<"\\uff26">>, <<"\\uff27">>, <<"\\uff28">>, <<"\\uff29">>, <<"\\uff2a">>, <<"\\uff2b">>,
     <<"\\uff2c">>, <<"\\uff2d">>, <<"\\uff2e">>, <<"\\uff2f">>, <<"\\uff30">>, <<"\\uff31">>,
     <<"\\uff32">>, <<"\\uff33">>, <<"\\uff34">>, <<"\\uff35">>, <<"\\uff36">>, <<"\\uff37">>,
     <<"\\uff38">>, <<"\\uff39">>, <<"\\uff3a">>, <<"\\uff41">>, <<"\\uff42">>, <<"\\uff43">>,
     <<"\\uff44">>, <<"\\uff45">>, <<"\\uff46">>, <<"\\uff47">>, <<"\\uff48">>, <<"\\uff49">>,
     <<"\\uff4a">>, <<"\\uff4b">>, <<"\\uff4c">>, <<"\\uff4d">>, <<"\\uff4e">>, <<"\\uff4f">>,
     <<"\\uff50">>, <<"\\uff51">>, <<"\\uff52">>, <<"\\uff53">>, <<"\\uff54">>, <<"\\uff55">>,
     <<"\\uff56">>, <<"\\uff57">>, <<"\\uff58">>, <<"\\uff59">>, <<"\\uff5a">>,
     <<"\\ud801", "\\udc00">>, <<"\\ud801", "\\udc01">>, <<"\\ud801", "\\udc02">>,
     <<"\\ud801", "\\udc03">>, <<"\\ud801", "\\udc04">>, <<"\\ud801", "\\udc05">>,
     <<"\\ud801", "\\udc06">>, <<"\\ud801", "\\udc07">>, <<"\\ud801", "\\udc08">>,
     <<"\\ud801", "\\udc09">>, <<"\\ud801", "\\udc0a">>, <<"\\ud801", "\\udc0b">>,
     <<"\\ud801", "\\udc0c">>, <<"\\ud801", "\\udc0d">>, <<"\\ud801", "\\udc0e">>,
     <<"\\ud801", "\\udc0f">>, <<"\\ud801", "\\udc10">>, <<"\\ud801", "\\udc11">>,
     <<"\\ud801", "\\udc12">>, <<"\\ud801", "\\udc13">>, <<"\\ud801", "\\udc14">>,
     <<"\\ud801", "\\udc15">>, <<"\\ud801", "\\udc16">>, <<"\\ud801", "\\udc17">>,
     <<"\\ud801", "\\udc18">>, <<"\\ud801", "\\udc19">>, <<"\\ud801", "\\udc1a">>,
     <<"\\ud801", "\\udc1b">>, <<"\\ud801", "\\udc1c">>, <<"\\ud801", "\\udc1d">>,
     <<"\\ud801", "\\udc1e">>, <<"\\ud801", "\\udc1f">>, <<"\\ud801", "\\udc20">>,
     <<"\\ud801", "\\udc21">>, <<"\\ud801", "\\udc22">>, <<"\\ud801", "\\udc23">>,
     <<"\\ud801", "\\udc24">>, <<"\\ud801", "\\udc25">>, <<"\\ud801", "\\udc26">>,
     <<"\\ud801", "\\udc27">>, <<"\\ud801", "\\udc28">>, <<"\\ud801", "\\udc29">>,
     <<"\\ud801", "\\udc2a">>, <<"\\ud801", "\\udc2b">>, <<"\\ud801", "\\udc2c">>,
     <<"\\ud801", "\\udc2d">>, <<"\\ud801", "\\udc2e">>, <<"\\ud801", "\\udc2f">>,
     <<"\\ud801", "\\udc30">>, <<"\\ud801", "\\udc31">>, <<"\\ud801", "\\udc32">>,
     <<"\\ud801", "\\udc33">>, <<"\\ud801", "\\udc34">>, <<"\\ud801", "\\udc35">>,
     <<"\\ud801", "\\udc36">>, <<"\\ud801", "\\udc37">>, <<"\\ud801", "\\udc38">>,
     <<"\\ud801", "\\udc39">>, <<"\\ud801", "\\udc3a">>, <<"\\ud801", "\\udc3b">>,
     <<"\\ud801", "\\udc3c">>, <<"\\ud801", "\\udc3d">>, <<"\\ud801", "\\udc3e">>,
     <<"\\ud801", "\\udc3f">>, <<"\\ud801", "\\udc40">>, <<"\\ud801", "\\udc41">>,
     <<"\\ud801", "\\udc42">>, <<"\\ud801", "\\udc43">>, <<"\\ud801", "\\udc44">>,
     <<"\\ud801", "\\udc45">>, <<"\\ud801", "\\udc46">>, <<"\\ud801", "\\udc47">>,
     <<"\\ud801", "\\udc48">>, <<"\\ud801", "\\udc49">>, <<"\\ud801", "\\udc4a">>,
     <<"\\ud801", "\\udc4b">>, <<"\\ud801", "\\udc4c">>, <<"\\ud801", "\\udc4d">>,
     <<"\\ud801", "\\udc4e">>, <<"\\ud801", "\\udc4f">>, <<"\\ud801", "\\udcb0">>,
     <<"\\ud801", "\\udcb1">>, <<"\\ud801", "\\udcb2">>, <<"\\ud801", "\\udcb3">>,
     <<"\\ud801", "\\udcb4">>, <<"\\ud801", "\\udcb5">>, <<"\\ud801", "\\udcb6">>,
     <<"\\ud801", "\\udcb7">>, <<"\\ud801", "\\udcb8">>, <<"\\ud801", "\\udcb9">>,
     <<"\\ud801", "\\udcba">>, <<"\\ud801", "\\udcbb">>, <<"\\ud801", "\\udcbc">>,
     <<"\\ud801", "\\udcbd">>, <<"\\ud801", "\\udcbe">>, <<"\\ud801", "\\udcbf">>,
     <<"\\ud801", "\\udcc0">>, <<"\\ud801", "\\udcc1">>, <<"\\ud801", "\\udcc2">>,
     <<"\\ud801", "\\udcc3">>, <<"\\ud801", "\\udcc4">>, <<"\\ud801", "\\udcc5">>,
     <<"\\ud801", "\\udcc6">>, <<"\\ud801", "\\udcc7">>, <<"\\ud801", "\\udcc8">>,
     <<"\\ud801", "\\udcc9">>, <<"\\ud801", "\\udcca">>, <<"\\ud801", "\\udccb">>,
     <<"\\ud801", "\\udccc">>, <<"\\ud801", "\\udccd">>, <<"\\ud801", "\\udcce">>,
     <<"\\ud801", "\\udccf">>, <<"\\ud801", "\\udcd0">>, <<"\\ud801", "\\udcd1">>,
     <<"\\ud801", "\\udcd2">>, <<"\\ud801", "\\udcd3">>, <<"\\ud801", "\\udcd8">>,
     <<"\\ud801", "\\udcd9">>, <<"\\ud801", "\\udcda">>, <<"\\ud801", "\\udcdb">>,
     <<"\\ud801", "\\udcdc">>, <<"\\ud801", "\\udcdd">>, <<"\\ud801", "\\udcde">>,
     <<"\\ud801", "\\udcdf">>, <<"\\ud801", "\\udce0">>, <<"\\ud801", "\\udce1">>,
     <<"\\ud801", "\\udce2">>, <<"\\ud801", "\\udce3">>, <<"\\ud801", "\\udce4">>,
     <<"\\ud801", "\\udce5">>, <<"\\ud801", "\\udce6">>, <<"\\ud801", "\\udce7">>,
     <<"\\ud801", "\\udce8">>, <<"\\ud801", "\\udce9">>, <<"\\ud801", "\\udcea">>,
     <<"\\ud801", "\\udceb">>, <<"\\ud801", "\\udcec">>, <<"\\ud801", "\\udced">>,
     <<"\\ud801", "\\udcee">>, <<"\\ud801", "\\udcef">>, <<"\\ud801", "\\udcf0">>,
     <<"\\ud801", "\\udcf1">>, <<"\\ud801", "\\udcf2">>, <<"\\ud801", "\\udcf3">>,
     <<"\\ud801", "\\udcf4">>, <<"\\ud801", "\\udcf5">>, <<"\\ud801", "\\udcf6">>,
     <<"\\ud801", "\\udcf7">>, <<"\\ud801", "\\udcf8">>, <<"\\ud801", "\\udcf9">>,
     <<"\\ud801", "\\udcfa">>, <<"\\ud801", "\\udcfb">>, <<"\\ud801", "\\udd70">>,
     <<"\\ud801", "\\udd71">>, <<"\\ud801", "\\udd72">>, <<"\\ud801", "\\udd73">>,
     <<"\\ud801", "\\udd74">>, <<"\\ud801", "\\udd75">>, <<"\\ud801", "\\udd76">>,
     <<"\\ud801", "\\udd77">>, <<"\\ud801", "\\udd78">>, <<"\\ud801", "\\udd79">>,
     <<"\\ud801", "\\udd7a">>, <<"\\ud801", "\\udd7c">>, <<"\\ud801", "\\udd7d">>,
     <<"\\ud801", "\\udd7e">>, <<"\\ud801", "\\udd7f">>, <<"\\ud801", "\\udd80">>,
     <<"\\ud801", "\\udd81">>, <<"\\ud801", "\\udd82">>, <<"\\ud801", "\\udd83">>,
     <<"\\ud801", "\\udd84">>, <<"\\ud801", "\\udd85">>, <<"\\ud801", "\\udd86">>,
     <<"\\ud801", "\\udd87">>, <<"\\ud801", "\\udd88">>, <<"\\ud801", "\\udd89">>,
     <<"\\ud801", "\\udd8a">>, <<"\\ud801", "\\udd8c">>, <<"\\ud801", "\\udd8d">>,
     <<"\\ud801", "\\udd8e">>, <<"\\ud801", "\\udd8f">>, <<"\\ud801", "\\udd90">>,
     <<"\\ud801", "\\udd91">>, <<"\\ud801", "\\udd92">>, <<"\\ud801", "\\udd94">>,
     <<"\\ud801", "\\udd95">>, <<"\\ud801", "\\udd97">>, <<"\\ud801", "\\udd98">>,
     <<"\\ud801", "\\udd99">>, <<"\\ud801", "\\udd9a">>, <<"\\ud801", "\\udd9b">>,
     <<"\\ud801", "\\udd9c">>, <<"\\ud801", "\\udd9d">>, <<"\\ud801", "\\udd9e">>,
     <<"\\ud801", "\\udd9f">>, <<"\\ud801", "\\udda0">>, <<"\\ud801", "\\udda1">>,
     <<"\\ud801", "\\udda3">>, <<"\\ud801", "\\udda4">>, <<"\\ud801", "\\udda5">>,
     <<"\\ud801", "\\udda6">>, <<"\\ud801", "\\udda7">>, <<"\\ud801", "\\udda8">>,
     <<"\\ud801", "\\udda9">>, <<"\\ud801", "\\uddaa">>, <<"\\ud801", "\\uddab">>,
     <<"\\ud801", "\\uddac">>, <<"\\ud801", "\\uddad">>, <<"\\ud801", "\\uddae">>,
     <<"\\ud801", "\\uddaf">>, <<"\\ud801", "\\uddb0">>, <<"\\ud801", "\\uddb1">>,
     <<"\\ud801", "\\uddb3">>, <<"\\ud801", "\\uddb4">>, <<"\\ud801", "\\uddb5">>,
     <<"\\ud801", "\\uddb6">>, <<"\\ud801", "\\uddb7">>, <<"\\ud801", "\\uddb8">>,
     <<"\\ud801", "\\uddb9">>, <<"\\ud801", "\\uddbb">>, <<"\\ud801", "\\uddbc">>,
     <<"\\ud803", "\\udc80">>, <<"\\ud803", "\\udc81">>, <<"\\ud803", "\\udc82">>,
     <<"\\ud803", "\\udc83">>, <<"\\ud803", "\\udc84">>, <<"\\ud803", "\\udc85">>,
     <<"\\ud803", "\\udc86">>, <<"\\ud803", "\\udc87">>, <<"\\ud803", "\\udc88">>,
     <<"\\ud803", "\\udc89">>, <<"\\ud803", "\\udc8a">>, <<"\\ud803", "\\udc8b">>,
     <<"\\ud803", "\\udc8c">>, <<"\\ud803", "\\udc8d">>, <<"\\ud803", "\\udc8e">>,
     <<"\\ud803", "\\udc8f">>, <<"\\ud803", "\\udc90">>, <<"\\ud803", "\\udc91">>,
     <<"\\ud803", "\\udc92">>, <<"\\ud803", "\\udc93">>, <<"\\ud803", "\\udc94">>,
     <<"\\ud803", "\\udc95">>, <<"\\ud803", "\\udc96">>, <<"\\ud803", "\\udc97">>,
     <<"\\ud803", "\\udc98">>, <<"\\ud803", "\\udc99">>, <<"\\ud803", "\\udc9a">>,
     <<"\\ud803", "\\udc9b">>, <<"\\ud803", "\\udc9c">>, <<"\\ud803", "\\udc9d">>,
     <<"\\ud803", "\\udc9e">>, <<"\\ud803", "\\udc9f">>, <<"\\ud803", "\\udca0">>,
     <<"\\ud803", "\\udca1">>, <<"\\ud803", "\\udca2">>, <<"\\ud803", "\\udca3">>,
     <<"\\ud803", "\\udca4">>, <<"\\ud803", "\\udca5">>, <<"\\ud803", "\\udca6">>,
     <<"\\ud803", "\\udca7">>, <<"\\ud803", "\\udca8">>, <<"\\ud803", "\\udca9">>,
     <<"\\ud803", "\\udcaa">>, <<"\\ud803", "\\udcab">>, <<"\\ud803", "\\udcac">>,
     <<"\\ud803", "\\udcad">>, <<"\\ud803", "\\udcae">>, <<"\\ud803", "\\udcaf">>,
     <<"\\ud803", "\\udcb0">>, <<"\\ud803", "\\udcb1">>, <<"\\ud803", "\\udcb2">>,
     <<"\\ud803", "\\udcc0">>, <<"\\ud803", "\\udcc1">>, <<"\\ud803", "\\udcc2">>,
     <<"\\ud803", "\\udcc3">>, <<"\\ud803", "\\udcc4">>, <<"\\ud803", "\\udcc5">>,
     <<"\\ud803", "\\udcc6">>, <<"\\ud803", "\\udcc7">>, <<"\\ud803", "\\udcc8">>,
     <<"\\ud803", "\\udcc9">>, <<"\\ud803", "\\udcca">>, <<"\\ud803", "\\udccb">>,
     <<"\\ud803", "\\udccc">>, <<"\\ud803", "\\udccd">>, <<"\\ud803", "\\udcce">>,
     <<"\\ud803", "\\udccf">>, <<"\\ud803", "\\udcd0">>, <<"\\ud803", "\\udcd1">>,
     <<"\\ud803", "\\udcd2">>, <<"\\ud803", "\\udcd3">>, <<"\\ud803", "\\udcd4">>,
     <<"\\ud803", "\\udcd5">>, <<"\\ud803", "\\udcd6">>, <<"\\ud803", "\\udcd7">>,
     <<"\\ud803", "\\udcd8">>, <<"\\ud803", "\\udcd9">>, <<"\\ud803", "\\udcda">>,
     <<"\\ud803", "\\udcdb">>, <<"\\ud803", "\\udcdc">>, <<"\\ud803", "\\udcdd">>,
     <<"\\ud803", "\\udcde">>, <<"\\ud803", "\\udcdf">>, <<"\\ud803", "\\udce0">>,
     <<"\\ud803", "\\udce1">>, <<"\\ud803", "\\udce2">>, <<"\\ud803", "\\udce3">>,
     <<"\\ud803", "\\udce4">>, <<"\\ud803", "\\udce5">>, <<"\\ud803", "\\udce6">>,
     <<"\\ud803", "\\udce7">>, <<"\\ud803", "\\udce8">>, <<"\\ud803", "\\udce9">>,
     <<"\\ud803", "\\udcea">>, <<"\\ud803", "\\udceb">>, <<"\\ud803", "\\udcec">>,
     <<"\\ud803", "\\udced">>, <<"\\ud803", "\\udcee">>, <<"\\ud803", "\\udcef">>,
     <<"\\ud803", "\\udcf0">>, <<"\\ud803", "\\udcf1">>, <<"\\ud803", "\\udcf2">>,
     <<"\\ud803", "\\udd50">>, <<"\\ud803", "\\udd51">>, <<"\\ud803", "\\udd52">>,
     <<"\\ud803", "\\udd53">>, <<"\\ud803", "\\udd54">>, <<"\\ud803", "\\udd55">>,
     <<"\\ud803", "\\udd56">>, <<"\\ud803", "\\udd57">>, <<"\\ud803", "\\udd58">>,
     <<"\\ud803", "\\udd59">>, <<"\\ud803", "\\udd5a">>, <<"\\ud803", "\\udd5b">>,
     <<"\\ud803", "\\udd5c">>, <<"\\ud803", "\\udd5d">>, <<"\\ud803", "\\udd5e">>,
     <<"\\ud803", "\\udd5f">>, <<"\\ud803", "\\udd60">>, <<"\\ud803", "\\udd61">>,
     <<"\\ud803", "\\udd62">>, <<"\\ud803", "\\udd63">>, <<"\\ud803", "\\udd64">>,
     <<"\\ud803", "\\udd65">>, <<"\\ud803", "\\udd70">>, <<"\\ud803", "\\udd71">>,
     <<"\\ud803", "\\udd72">>, <<"\\ud803", "\\udd73">>, <<"\\ud803", "\\udd74">>,
     <<"\\ud803", "\\udd75">>, <<"\\ud803", "\\udd76">>, <<"\\ud803", "\\udd77">>,
     <<"\\ud803", "\\udd78">>, <<"\\ud803", "\\udd79">>, <<"\\ud803", "\\udd7a">>,
     <<"\\ud803", "\\udd7b">>, <<"\\ud803", "\\udd7c">>, <<"\\ud803", "\\udd7d">>,
     <<"\\ud803", "\\udd7e">>, <<"\\ud803", "\\udd7f">>, <<"\\ud803", "\\udd80">>,
     <<"\\ud803", "\\udd81">>, <<"\\ud803", "\\udd82">>, <<"\\ud803", "\\udd83">>,
     <<"\\ud803", "\\udd84">>, <<"\\ud803", "\\udd85">>, <<"\\ud806", "\\udca0">>,
     <<"\\ud806", "\\udca1">>, <<"\\ud806", "\\udca2">>, <<"\\ud806", "\\udca3">>,
     <<"\\ud806", "\\udca4">>, <<"\\ud806", "\\udca5">>, <<"\\ud806", "\\udca6">>,
     <<"\\ud806", "\\udca7">>, <<"\\ud806", "\\udca8">>, <<"\\ud806", "\\udca9">>,
     <<"\\ud806", "\\udcaa">>, <<"\\ud806", "\\udcab">>, <<"\\ud806", "\\udcac">>,
     <<"\\ud806", "\\udcad">>, <<"\\ud806", "\\udcae">>, <<"\\ud806", "\\udcaf">>,
     <<"\\ud806", "\\udcb0">>, <<"\\ud806", "\\udcb1">>, <<"\\ud806", "\\udcb2">>,
     <<"\\ud806", "\\udcb3">>, <<"\\ud806", "\\udcb4">>, <<"\\ud806", "\\udcb5">>,
     <<"\\ud806", "\\udcb6">>, <<"\\ud806", "\\udcb7">>, <<"\\ud806", "\\udcb8">>,
     <<"\\ud806", "\\udcb9">>, <<"\\ud806", "\\udcba">>, <<"\\ud806", "\\udcbb">>,
     <<"\\ud806", "\\udcbc">>, <<"\\ud806", "\\udcbd">>, <<"\\ud806", "\\udcbe">>,
     <<"\\ud806", "\\udcbf">>, <<"\\ud806", "\\udcc0">>, <<"\\ud806", "\\udcc1">>,
     <<"\\ud806", "\\udcc2">>, <<"\\ud806", "\\udcc3">>, <<"\\ud806", "\\udcc4">>,
     <<"\\ud806", "\\udcc5">>, <<"\\ud806", "\\udcc6">>, <<"\\ud806", "\\udcc7">>,
     <<"\\ud806", "\\udcc8">>, <<"\\ud806", "\\udcc9">>, <<"\\ud806", "\\udcca">>,
     <<"\\ud806", "\\udccb">>, <<"\\ud806", "\\udccc">>, <<"\\ud806", "\\udccd">>,
     <<"\\ud806", "\\udcce">>, <<"\\ud806", "\\udccf">>, <<"\\ud806", "\\udcd0">>,
     <<"\\ud806", "\\udcd1">>, <<"\\ud806", "\\udcd2">>, <<"\\ud806", "\\udcd3">>,
     <<"\\ud806", "\\udcd4">>, <<"\\ud806", "\\udcd5">>, <<"\\ud806", "\\udcd6">>,
     <<"\\ud806", "\\udcd7">>, <<"\\ud806", "\\udcd8">>, <<"\\ud806", "\\udcd9">>,
     <<"\\ud806", "\\udcda">>, <<"\\ud806", "\\udcdb">>, <<"\\ud806", "\\udcdc">>,
     <<"\\ud806", "\\udcdd">>, <<"\\ud806", "\\udcde">>, <<"\\ud806", "\\udcdf">>,
     <<"\\ud81b", "\\ude40">>, <<"\\ud81b", "\\ude41">>, <<"\\ud81b", "\\ude42">>,
     <<"\\ud81b", "\\ude43">>, <<"\\ud81b", "\\ude44">>, <<"\\ud81b", "\\ude45">>,
     <<"\\ud81b", "\\ude46">>, <<"\\ud81b", "\\ude47">>, <<"\\ud81b", "\\ude48">>,
     <<"\\ud81b", "\\ude49">>, <<"\\ud81b", "\\ude4a">>, <<"\\ud81b", "\\ude4b">>,
     <<"\\ud81b", "\\ude4c">>, <<"\\ud81b", "\\ude4d">>, <<"\\ud81b", "\\ude4e">>,
     <<"\\ud81b", "\\ude4f">>, <<"\\ud81b", "\\ude50">>, <<"\\ud81b", "\\ude51">>,
     <<"\\ud81b", "\\ude52">>, <<"\\ud81b", "\\ude53">>, <<"\\ud81b", "\\ude54">>,
     <<"\\ud81b", "\\ude55">>, <<"\\ud81b", "\\ude56">>, <<"\\ud81b", "\\ude57">>,
     <<"\\ud81b", "\\ude58">>, <<"\\ud81b", "\\ude59">>, <<"\\ud81b", "\\ude5a">>,
     <<"\\ud81b", "\\ude5b">>, <<"\\ud81b", "\\ude5c">>, <<"\\ud81b", "\\ude5d">>,
     <<"\\ud81b", "\\ude5e">>, <<"\\ud81b", "\\ude5f">>, <<"\\ud81b", "\\ude60">>,
     <<"\\ud81b", "\\ude61">>, <<"\\ud81b", "\\ude62">>, <<"\\ud81b", "\\ude63">>,
     <<"\\ud81b", "\\ude64">>, <<"\\ud81b", "\\ude65">>, <<"\\ud81b", "\\ude66">>,
     <<"\\ud81b", "\\ude67">>, <<"\\ud81b", "\\ude68">>, <<"\\ud81b", "\\ude69">>,
     <<"\\ud81b", "\\ude6a">>, <<"\\ud81b", "\\ude6b">>, <<"\\ud81b", "\\ude6c">>,
     <<"\\ud81b", "\\ude6d">>, <<"\\ud81b", "\\ude6e">>, <<"\\ud81b", "\\ude6f">>,
     <<"\\ud81b", "\\ude70">>, <<"\\ud81b", "\\ude71">>, <<"\\ud81b", "\\ude72">>,
     <<"\\ud81b", "\\ude73">>, <<"\\ud81b", "\\ude74">>, <<"\\ud81b", "\\ude75">>,
     <<"\\ud81b", "\\ude76">>, <<"\\ud81b", "\\ude77">>, <<"\\ud81b", "\\ude78">>,
     <<"\\ud81b", "\\ude79">>, <<"\\ud81b", "\\ude7a">>, <<"\\ud81b", "\\ude7b">>,
     <<"\\ud81b", "\\ude7c">>, <<"\\ud81b", "\\ude7d">>, <<"\\ud81b", "\\ude7e">>,
     <<"\\ud81b", "\\ude7f">>, <<"\\ud81b", "\\udea0">>, <<"\\ud81b", "\\udea1">>,
     <<"\\ud81b", "\\udea2">>, <<"\\ud81b", "\\udea3">>, <<"\\ud81b", "\\udea4">>,
     <<"\\ud81b", "\\udea5">>, <<"\\ud81b", "\\udea6">>, <<"\\ud81b", "\\udea7">>,
     <<"\\ud81b", "\\udea8">>, <<"\\ud81b", "\\udea9">>, <<"\\ud81b", "\\udeaa">>,
     <<"\\ud81b", "\\udeab">>, <<"\\ud81b", "\\udeac">>, <<"\\ud81b", "\\udead">>,
     <<"\\ud81b", "\\udeae">>, <<"\\ud81b", "\\udeaf">>, <<"\\ud81b", "\\udeb0">>,
     <<"\\ud81b", "\\udeb1">>, <<"\\ud81b", "\\udeb2">>, <<"\\ud81b", "\\udeb3">>,
     <<"\\ud81b", "\\udeb4">>, <<"\\ud81b", "\\udeb5">>, <<"\\ud81b", "\\udeb6">>,
     <<"\\ud81b", "\\udeb7">>, <<"\\ud81b", "\\udeb8">>, <<"\\ud81b", "\\udebb">>,
     <<"\\ud81b", "\\udebc">>, <<"\\ud81b", "\\udebd">>, <<"\\ud81b", "\\udebe">>,
     <<"\\ud81b", "\\udebf">>, <<"\\ud81b", "\\udec0">>, <<"\\ud81b", "\\udec1">>,
     <<"\\ud81b", "\\udec2">>, <<"\\ud81b", "\\udec3">>, <<"\\ud81b", "\\udec4">>,
     <<"\\ud81b", "\\udec5">>, <<"\\ud81b", "\\udec6">>, <<"\\ud81b", "\\udec7">>,
     <<"\\ud81b", "\\udec8">>, <<"\\ud81b", "\\udec9">>, <<"\\ud81b", "\\udeca">>,
     <<"\\ud81b", "\\udecb">>, <<"\\ud81b", "\\udecc">>, <<"\\ud81b", "\\udecd">>,
     <<"\\ud81b", "\\udece">>, <<"\\ud81b", "\\udecf">>, <<"\\ud81b", "\\uded0">>,
     <<"\\ud81b", "\\uded1">>, <<"\\ud81b", "\\uded2">>, <<"\\ud81b", "\\uded3">>,
     <<"\\ud835", "\\udc00">>, <<"\\ud835", "\\udc01">>, <<"\\ud835", "\\udc02">>,
     <<"\\ud835", "\\udc03">>, <<"\\ud835", "\\udc04">>, <<"\\ud835", "\\udc05">>,
     <<"\\ud835", "\\udc06">>, <<"\\ud835", "\\udc07">>, <<"\\ud835", "\\udc08">>,
     <<"\\ud835", "\\udc09">>, <<"\\ud835", "\\udc0a">>, <<"\\ud835", "\\udc0b">>,
     <<"\\ud835", "\\udc0c">>, <<"\\ud835", "\\udc0d">>, <<"\\ud835", "\\udc0e">>,
     <<"\\ud835", "\\udc0f">>, <<"\\ud835", "\\udc10">>, <<"\\ud835", "\\udc11">>,
     <<"\\ud835", "\\udc12">>, <<"\\ud835", "\\udc13">>, <<"\\ud835", "\\udc14">>,
     <<"\\ud835", "\\udc15">>, <<"\\ud835", "\\udc16">>, <<"\\ud835", "\\udc17">>,
     <<"\\ud835", "\\udc18">>, <<"\\ud835", "\\udc19">>, <<"\\ud835", "\\udc1a">>,
     <<"\\ud835", "\\udc1b">>, <<"\\ud835", "\\udc1c">>, <<"\\ud835", "\\udc1d">>,
     <<"\\ud835", "\\udc1e">>, <<"\\ud835", "\\udc1f">>, <<"\\ud835", "\\udc20">>,
     <<"\\ud835", "\\udc21">>, <<"\\ud835", "\\udc22">>, <<"\\ud835", "\\udc23">>,
     <<"\\ud835", "\\udc24">>, <<"\\ud835", "\\udc25">>, <<"\\ud835", "\\udc26">>,
     <<"\\ud835", "\\udc27">>, <<"\\ud835", "\\udc28">>, <<"\\ud835", "\\udc29">>,
     <<"\\ud835", "\\udc2a">>, <<"\\ud835", "\\udc2b">>, <<"\\ud835", "\\udc2c">>,
     <<"\\ud835", "\\udc2d">>, <<"\\ud835", "\\udc2e">>, <<"\\ud835", "\\udc2f">>,
     <<"\\ud835", "\\udc30">>, <<"\\ud835", "\\udc31">>, <<"\\ud835", "\\udc32">>,
     <<"\\ud835", "\\udc33">>, <<"\\ud835", "\\udc34">>, <<"\\ud835", "\\udc35">>,
     <<"\\ud835", "\\udc36">>, <<"\\ud835", "\\udc37">>, <<"\\ud835", "\\udc38">>,
     <<"\\ud835", "\\udc39">>, <<"\\ud835", "\\udc3a">>, <<"\\ud835", "\\udc3b">>,
     <<"\\ud835", "\\udc3c">>, <<"\\ud835", "\\udc3d">>, <<"\\ud835", "\\udc3e">>,
     <<"\\ud835", "\\udc3f">>, <<"\\ud835", "\\udc40">>, <<"\\ud835", "\\udc41">>,
     <<"\\ud835", "\\udc42">>, <<"\\ud835", "\\udc43">>, <<"\\ud835", "\\udc44">>,
     <<"\\ud835", "\\udc45">>, <<"\\ud835", "\\udc46">>, <<"\\ud835", "\\udc47">>,
     <<"\\ud835", "\\udc48">>, <<"\\ud835", "\\udc49">>, <<"\\ud835", "\\udc4a">>,
     <<"\\ud835", "\\udc4b">>, <<"\\ud835", "\\udc4c">>, <<"\\ud835", "\\udc4d">>,
     <<"\\ud835", "\\udc4e">>, <<"\\ud835", "\\udc4f">>, <<"\\ud835", "\\udc50">>,
     <<"\\ud835", "\\udc51">>, <<"\\ud835", "\\udc52">>, <<"\\ud835", "\\udc53">>,
     <<"\\ud835", "\\udc54">>, <<"\\ud835", "\\udc56">>, <<"\\ud835", "\\udc57">>,
     <<"\\ud835", "\\udc58">>, <<"\\ud835", "\\udc59">>, <<"\\ud835", "\\udc5a">>,
     <<"\\ud835", "\\udc5b">>, <<"\\ud835", "\\udc5c">>, <<"\\ud835", "\\udc5d">>,
     <<"\\ud835", "\\udc5e">>, <<"\\ud835", "\\udc5f">>, <<"\\ud835", "\\udc60">>,
     <<"\\ud835", "\\udc61">>, <<"\\ud835", "\\udc62">>, <<"\\ud835", "\\udc63">>,
     <<"\\ud835", "\\udc64">>, <<"\\ud835", "\\udc65">>, <<"\\ud835", "\\udc66">>,
     <<"\\ud835", "\\udc67">>, <<"\\ud835", "\\udc68">>, <<"\\ud835", "\\udc69">>,
     <<"\\ud835", "\\udc6a">>, <<"\\ud835", "\\udc6b">>, <<"\\ud835", "\\udc6c">>,
     <<"\\ud835", "\\udc6d">>, <<"\\ud835", "\\udc6e">>, <<"\\ud835", "\\udc6f">>,
     <<"\\ud835", "\\udc70">>, <<"\\ud835", "\\udc71">>, <<"\\ud835", "\\udc72">>,
     <<"\\ud835", "\\udc73">>, <<"\\ud835", "\\udc74">>, <<"\\ud835", "\\udc75">>,
     <<"\\ud835", "\\udc76">>, <<"\\ud835", "\\udc77">>, <<"\\ud835", "\\udc78">>,
     <<"\\ud835", "\\udc79">>, <<"\\ud835", "\\udc7a">>, <<"\\ud835", "\\udc7b">>,
     <<"\\ud835", "\\udc7c">>, <<"\\ud835", "\\udc7d">>, <<"\\ud835", "\\udc7e">>,
     <<"\\ud835", "\\udc7f">>, <<"\\ud835", "\\udc80">>, <<"\\ud835", "\\udc81">>,
     <<"\\ud835", "\\udc82">>, <<"\\ud835", "\\udc83">>, <<"\\ud835", "\\udc84">>,
     <<"\\ud835", "\\udc85">>, <<"\\ud835", "\\udc86">>, <<"\\ud835", "\\udc87">>,
     <<"\\ud835", "\\udc88">>, <<"\\ud835", "\\udc89">>, <<"\\ud835", "\\udc8a">>,
     <<"\\ud835", "\\udc8b">>, <<"\\ud835", "\\udc8c">>, <<"\\ud835", "\\udc8d">>,
     <<"\\ud835", "\\udc8e">>, <<"\\ud835", "\\udc8f">>, <<"\\ud835", "\\udc90">>,
     <<"\\ud835", "\\udc91">>, <<"\\ud835", "\\udc92">>, <<"\\ud835", "\\udc93">>,
     <<"\\ud835", "\\udc94">>, <<"\\ud835", "\\udc95">>, <<"\\ud835", "\\udc96">>,
     <<"\\ud835", "\\udc97">>, <<"\\ud835", "\\udc98">>, <<"\\ud835", "\\udc99">>,
     <<"\\ud835", "\\udc9a">>, <<"\\ud835", "\\udc9b">>, <<"\\ud835", "\\udc9c">>,
     <<"\\ud835", "\\udc9e">>, <<"\\ud835", "\\udc9f">>, <<"\\ud835", "\\udca2">>,
     <<"\\ud835", "\\udca5">>, <<"\\ud835", "\\udca6">>, <<"\\ud835", "\\udca9">>,
     <<"\\ud835", "\\udcaa">>, <<"\\ud835", "\\udcab">>, <<"\\ud835", "\\udcac">>,
     <<"\\ud835", "\\udcae">>, <<"\\ud835", "\\udcaf">>, <<"\\ud835", "\\udcb0">>,
     <<"\\ud835", "\\udcb1">>, <<"\\ud835", "\\udcb2">>, <<"\\ud835", "\\udcb3">>,
     <<"\\ud835", "\\udcb4">>, <<"\\ud835", "\\udcb5">>, <<"\\ud835", "\\udcb6">>,
     <<"\\ud835", "\\udcb7">>, <<"\\ud835", "\\udcb8">>, <<"\\ud835", "\\udcb9">>,
     <<"\\ud835", "\\udcbb">>, <<"\\ud835", "\\udcbd">>, <<"\\ud835", "\\udcbe">>,
     <<"\\ud835", "\\udcbf">>, <<"\\ud835", "\\udcc0">>, <<"\\ud835", "\\udcc1">>,
     <<"\\ud835", "\\udcc2">>, <<"\\ud835", "\\udcc3">>, <<"\\ud835", "\\udcc5">>,
     <<"\\ud835", "\\udcc6">>, <<"\\ud835", "\\udcc7">>, <<"\\ud835", "\\udcc8">>,
     <<"\\ud835", "\\udcc9">>, <<"\\ud835", "\\udcca">>, <<"\\ud835", "\\udccb">>,
     <<"\\ud835", "\\udccc">>, <<"\\ud835", "\\udccd">>, <<"\\ud835", "\\udcce">>,
     <<"\\ud835", "\\udccf">>, <<"\\ud835", "\\udcd0">>, <<"\\ud835", "\\udcd1">>,
     <<"\\ud835", "\\udcd2">>, <<"\\ud835", "\\udcd3">>, <<"\\ud835", "\\udcd4">>,
     <<"\\ud835", "\\udcd5">>, <<"\\ud835", "\\udcd6">>, <<"\\ud835", "\\udcd7">>,
     <<"\\ud835", "\\udcd8">>, <<"\\ud835", "\\udcd9">>, <<"\\ud835", "\\udcda">>,
     <<"\\ud835", "\\udcdb">>, <<"\\ud835", "\\udcdc">>, <<"\\ud835", "\\udcdd">>,
     <<"\\ud835", "\\udcde">>, <<"\\ud835", "\\udcdf">>, <<"\\ud835", "\\udce0">>,
     <<"\\ud835", "\\udce1">>, <<"\\ud835", "\\udce2">>, <<"\\ud835", "\\udce3">>,
     <<"\\ud835", "\\udce4">>, <<"\\ud835", "\\udce5">>, <<"\\ud835", "\\udce6">>,
     <<"\\ud835", "\\udce7">>, <<"\\ud835", "\\udce8">>, <<"\\ud835", "\\udce9">>,
     <<"\\ud835", "\\udcea">>, <<"\\ud835", "\\udceb">>, <<"\\ud835", "\\udcec">>,
     <<"\\ud835", "\\udced">>, <<"\\ud835", "\\udcee">>, <<"\\ud835", "\\udcef">>,
     <<"\\ud835", "\\udcf0">>, <<"\\ud835", "\\udcf1">>, <<"\\ud835", "\\udcf2">>,
     <<"\\ud835", "\\udcf3">>, <<"\\ud835", "\\udcf4">>, <<"\\ud835", "\\udcf5">>,
     <<"\\ud835", "\\udcf6">>, <<"\\ud835", "\\udcf7">>, <<"\\ud835", "\\udcf8">>,
     <<"\\ud835", "\\udcf9">>, <<"\\ud835", "\\udcfa">>, <<"\\ud835", "\\udcfb">>,
     <<"\\ud835", "\\udcfc">>, <<"\\ud835", "\\udcfd">>, <<"\\ud835", "\\udcfe">>,
     <<"\\ud835", "\\udcff">>, <<"\\ud835", "\\udd00">>, <<"\\ud835", "\\udd01">>,
     <<"\\ud835", "\\udd02">>, <<"\\ud835", "\\udd03">>, <<"\\ud835", "\\udd04">>,
     <<"\\ud835", "\\udd05">>, <<"\\ud835", "\\udd07">>, <<"\\ud835", "\\udd08">>,
     <<"\\ud835", "\\udd09">>, <<"\\ud835", "\\udd0a">>, <<"\\ud835", "\\udd0d">>,
     <<"\\ud835", "\\udd0e">>, <<"\\ud835", "\\udd0f">>, <<"\\ud835", "\\udd10">>,
     <<"\\ud835", "\\udd11">>, <<"\\ud835", "\\udd12">>, <<"\\ud835", "\\udd13">>,
     <<"\\ud835", "\\udd14">>, <<"\\ud835", "\\udd16">>, <<"\\ud835", "\\udd17">>,
     <<"\\ud835", "\\udd18">>, <<"\\ud835", "\\udd19">>, <<"\\ud835", "\\udd1a">>,
     <<"\\ud835", "\\udd1b">>, <<"\\ud835", "\\udd1c">>, <<"\\ud835", "\\udd1e">>,
     <<"\\ud835", "\\udd1f">>, <<"\\ud835", "\\udd20">>, <<"\\ud835", "\\udd21">>,
     <<"\\ud835", "\\udd22">>, <<"\\ud835", "\\udd23">>, <<"\\ud835", "\\udd24">>,
     <<"\\ud835", "\\udd25">>, <<"\\ud835", "\\udd26">>, <<"\\ud835", "\\udd27">>,
     <<"\\ud835", "\\udd28">>, <<"\\ud835", "\\udd29">>, <<"\\ud835", "\\udd2a">>,
     <<"\\ud835", "\\udd2b">>, <<"\\ud835", "\\udd2c">>, <<"\\ud835", "\\udd2d">>,
     <<"\\ud835", "\\udd2e">>, <<"\\ud835", "\\udd2f">>, <<"\\ud835", "\\udd30">>,
     <<"\\ud835", "\\udd31">>, <<"\\ud835", "\\udd32">>, <<"\\ud835", "\\udd33">>,
     <<"\\ud835", "\\udd34">>, <<"\\ud835", "\\udd35">>, <<"\\ud835", "\\udd36">>,
     <<"\\ud835", "\\udd37">>, <<"\\ud835", "\\udd38">>, <<"\\ud835", "\\udd39">>,
     <<"\\ud835", "\\udd3b">>, <<"\\ud835", "\\udd3c">>, <<"\\ud835", "\\udd3d">>,
     <<"\\ud835", "\\udd3e">>, <<"\\ud835", "\\udd40">>, <<"\\ud835", "\\udd41">>,
     <<"\\ud835", "\\udd42">>, <<"\\ud835", "\\udd43">>, <<"\\ud835", "\\udd44">>,
     <<"\\ud835", "\\udd46">>, <<"\\ud835", "\\udd4a">>, <<"\\ud835", "\\udd4b">>,
     <<"\\ud835", "\\udd4c">>, <<"\\ud835", "\\udd4d">>, <<"\\ud835", "\\udd4e">>,
     <<"\\ud835", "\\udd4f">>, <<"\\ud835", "\\udd50">>, <<"\\ud835", "\\udd52">>,
     <<"\\ud835", "\\udd53">>, <<"\\ud835", "\\udd54">>, <<"\\ud835", "\\udd55">>,
     <<"\\ud835", "\\udd56">>, <<"\\ud835", "\\udd57">>, <<"\\ud835", "\\udd58">>,
     <<"\\ud835", "\\udd59">>, <<"\\ud835", "\\udd5a">>, <<"\\ud835", "\\udd5b">>,
     <<"\\ud835", "\\udd5c">>, <<"\\ud835", "\\udd5d">>, <<"\\ud835", "\\udd5e">>,
     <<"\\ud835", "\\udd5f">>, <<"\\ud835", "\\udd60">>, <<"\\ud835", "\\udd61">>,
     <<"\\ud835", "\\udd62">>, <<"\\ud835", "\\udd63">>, <<"\\ud835", "\\udd64">>,
     <<"\\ud835", "\\udd65">>, <<"\\ud835", "\\udd66">>, <<"\\ud835", "\\udd67">>,
     <<"\\ud835", "\\udd68">>, <<"\\ud835", "\\udd69">>, <<"\\ud835", "\\udd6a">>,
     <<"\\ud835", "\\udd6b">>, <<"\\ud835", "\\udd6c">>, <<"\\ud835", "\\udd6d">>,
     <<"\\ud835", "\\udd6e">>, <<"\\ud835", "\\udd6f">>, <<"\\ud835", "\\udd70">>,
     <<"\\ud835", "\\udd71">>, <<"\\ud835", "\\udd72">>, <<"\\ud835", "\\udd73">>,
     <<"\\ud835", "\\udd74">>, <<"\\ud835", "\\udd75">>, <<"\\ud835", "\\udd76">>,
     <<"\\ud835", "\\udd77">>, <<"\\ud835", "\\udd78">>, <<"\\ud835", "\\udd79">>,
     <<"\\ud835", "\\udd7a">>, <<"\\ud835", "\\udd7b">>, <<"\\ud835", "\\udd7c">>,
     <<"\\ud835", "\\udd7d">>, <<"\\ud835", "\\udd7e">>, <<"\\ud835", "\\udd7f">>,
     <<"\\ud835", "\\udd80">>, <<"\\ud835", "\\udd81">>, <<"\\ud835", "\\udd82">>,
     <<"\\ud835", "\\udd83">>, <<"\\ud835", "\\udd84">>, <<"\\ud835", "\\udd85">>,
     <<"\\ud835", "\\udd86">>, <<"\\ud835", "\\udd87">>, <<"\\ud835", "\\udd88">>,
     <<"\\ud835", "\\udd89">>, <<"\\ud835", "\\udd8a">>, <<"\\ud835", "\\udd8b">>,
     <<"\\ud835", "\\udd8c">>, <<"\\ud835", "\\udd8d">>, <<"\\ud835", "\\udd8e">>,
     <<"\\ud835", "\\udd8f">>, <<"\\ud835", "\\udd90">>, <<"\\ud835", "\\udd91">>,
     <<"\\ud835", "\\udd92">>, <<"\\ud835", "\\udd93">>, <<"\\ud835", "\\udd94">>,
     <<"\\ud835", "\\udd95">>, <<"\\ud835", "\\udd96">>, <<"\\ud835", "\\udd97">>,
     <<"\\ud835", "\\udd98">>, <<"\\ud835", "\\udd99">>, <<"\\ud835", "\\udd9a">>,
     <<"\\ud835", "\\udd9b">>, <<"\\ud835", "\\udd9c">>, <<"\\ud835", "\\udd9d">>,
     <<"\\ud835", "\\udd9e">>, <<"\\ud835", "\\udd9f">>, <<"\\ud835", "\\udda0">>,
     <<"\\ud835", "\\udda1">>, <<"\\ud835", "\\udda2">>, <<"\\ud835", "\\udda3">>,
     <<"\\ud835", "\\udda4">>, <<"\\ud835", "\\udda5">>, <<"\\ud835", "\\udda6">>,
     <<"\\ud835", "\\udda7">>, <<"\\ud835", "\\udda8">>, <<"\\ud835", "\\udda9">>,
     <<"\\ud835", "\\uddaa">>, <<"\\ud835", "\\uddab">>, <<"\\ud835", "\\uddac">>,
     <<"\\ud835", "\\uddad">>, <<"\\ud835", "\\uddae">>, <<"\\ud835", "\\uddaf">>,
     <<"\\ud835", "\\uddb0">>, <<"\\ud835", "\\uddb1">>, <<"\\ud835", "\\uddb2">>,
     <<"\\ud835", "\\uddb3">>, <<"\\ud835", "\\uddb4">>, <<"\\ud835", "\\uddb5">>,
     <<"\\ud835", "\\uddb6">>, <<"\\ud835", "\\uddb7">>, <<"\\ud835", "\\uddb8">>,
     <<"\\ud835", "\\uddb9">>, <<"\\ud835", "\\uddba">>, <<"\\ud835", "\\uddbb">>,
     <<"\\ud835", "\\uddbc">>, <<"\\ud835", "\\uddbd">>, <<"\\ud835", "\\uddbe">>,
     <<"\\ud835", "\\uddbf">>, <<"\\ud835", "\\uddc0">>, <<"\\ud835", "\\uddc1">>,
     <<"\\ud835", "\\uddc2">>, <<"\\ud835", "\\uddc3">>, <<"\\ud835", "\\uddc4">>,
     <<"\\ud835", "\\uddc5">>, <<"\\ud835", "\\uddc6">>, <<"\\ud835", "\\uddc7">>,
     <<"\\ud835", "\\uddc8">>, <<"\\ud835", "\\uddc9">>, <<"\\ud835", "\\uddca">>,
     <<"\\ud835", "\\uddcb">>, <<"\\ud835", "\\uddcc">>, <<"\\ud835", "\\uddcd">>,
     <<"\\ud835", "\\uddce">>, <<"\\ud835", "\\uddcf">>, <<"\\ud835", "\\uddd0">>,
     <<"\\ud835", "\\uddd1">>, <<"\\ud835", "\\uddd2">>, <<"\\ud835", "\\uddd3">>,
     <<"\\ud835", "\\uddd4">>, <<"\\ud835", "\\uddd5">>, <<"\\ud835", "\\uddd6">>,
     <<"\\ud835", "\\uddd7">>, <<"\\ud835", "\\uddd8">>, <<"\\ud835", "\\uddd9">>,
     <<"\\ud835", "\\uddda">>, <<"\\ud835", "\\udddb">>, <<"\\ud835", "\\udddc">>,
     <<"\\ud835", "\\udddd">>, <<"\\ud835", "\\uddde">>, <<"\\ud835", "\\udddf">>,
     <<"\\ud835", "\\udde0">>, <<"\\ud835", "\\udde1">>, <<"\\ud835", "\\udde2">>,
     <<"\\ud835", "\\udde3">>, <<"\\ud835", "\\udde4">>, <<"\\ud835", "\\udde5">>,
     <<"\\ud835", "\\udde6">>, <<"\\ud835", "\\udde7">>, <<"\\ud835", "\\udde8">>,
     <<"\\ud835", "\\udde9">>, <<"\\ud835", "\\uddea">>, <<"\\ud835", "\\uddeb">>,
     <<"\\ud835", "\\uddec">>, <<"\\ud835", "\\udded">>, <<"\\ud835", "\\uddee">>,
     <<"\\ud835", "\\uddef">>, <<"\\ud835", "\\uddf0">>, <<"\\ud835", "\\uddf1">>,
     <<"\\ud835", "\\uddf2">>, <<"\\ud835", "\\uddf3">>, <<"\\ud835", "\\uddf4">>,
     <<"\\ud835", "\\uddf5">>, <<"\\ud835", "\\uddf6">>, <<"\\ud835", "\\uddf7">>,
     <<"\\ud835", "\\uddf8">>, <<"\\ud835", "\\uddf9">>, <<"\\ud835", "\\uddfa">>,
     <<"\\ud835", "\\uddfb">>, <<"\\ud835", "\\uddfc">>, <<"\\ud835", "\\uddfd">>,
     <<"\\ud835", "\\uddfe">>, <<"\\ud835", "\\uddff">>, <<"\\ud835", "\\ude00">>,
     <<"\\ud835", "\\ude01">>, <<"\\ud835", "\\ude02">>, <<"\\ud835", "\\ude03">>,
     <<"\\ud835", "\\ude04">>, <<"\\ud835", "\\ude05">>, <<"\\ud835", "\\ude06">>,
     <<"\\ud835", "\\ude07">>, <<"\\ud835", "\\ude08">>, <<"\\ud835", "\\ude09">>,
     <<"\\ud835", "\\ude0a">>, <<"\\ud835", "\\ude0b">>, <<"\\ud835", "\\ude0c">>,
     <<"\\ud835", "\\ude0d">>, <<"\\ud835", "\\ude0e">>, <<"\\ud835", "\\ude0f">>,
     <<"\\ud835", "\\ude10">>, <<"\\ud835", "\\ude11">>, <<"\\ud835", "\\ude12">>,
     <<"\\ud835", "\\ude13">>, <<"\\ud835", "\\ude14">>, <<"\\ud835", "\\ude15">>,
     <<"\\ud835", "\\ude16">>, <<"\\ud835", "\\ude17">>, <<"\\ud835", "\\ude18">>,
     <<"\\ud835", "\\ude19">>, <<"\\ud835", "\\ude1a">>, <<"\\ud835", "\\ude1b">>,
     <<"\\ud835", "\\ude1c">>, <<"\\ud835", "\\ude1d">>, <<"\\ud835", "\\ude1e">>,
     <<"\\ud835", "\\ude1f">>, <<"\\ud835", "\\ude20">>, <<"\\ud835", "\\ude21">>,
     <<"\\ud835", "\\ude22">>, <<"\\ud835", "\\ude23">>, <<"\\ud835", "\\ude24">>,
     <<"\\ud835", "\\ude25">>, <<"\\ud835", "\\ude26">>, <<"\\ud835", "\\ude27">>,
     <<"\\ud835", "\\ude28">>, <<"\\ud835", "\\ude29">>, <<"\\ud835", "\\ude2a">>,
     <<"\\ud835", "\\ude2b">>, <<"\\ud835", "\\ude2c">>, <<"\\ud835", "\\ude2d">>,
     <<"\\ud835", "\\ude2e">>, <<"\\ud835", "\\ude2f">>, <<"\\ud835", "\\ude30">>,
     <<"\\ud835", "\\ude31">>, <<"\\ud835", "\\ude32">>, <<"\\ud835", "\\ude33">>,
     <<"\\ud835", "\\ude34">>, <<"\\ud835", "\\ude35">>, <<"\\ud835", "\\ude36">>,
     <<"\\ud835", "\\ude37">>, <<"\\ud835", "\\ude38">>, <<"\\ud835", "\\ude39">>,
     <<"\\ud835", "\\ude3a">>, <<"\\ud835", "\\ude3b">>, <<"\\ud835", "\\ude3c">>,
     <<"\\ud835", "\\ude3d">>, <<"\\ud835", "\\ude3e">>, <<"\\ud835", "\\ude3f">>,
     <<"\\ud835", "\\ude40">>, <<"\\ud835", "\\ude41">>, <<"\\ud835", "\\ude42">>,
     <<"\\ud835", "\\ude43">>, <<"\\ud835", "\\ude44">>, <<"\\ud835", "\\ude45">>,
     <<"\\ud835", "\\ude46">>, <<"\\ud835", "\\ude47">>, <<"\\ud835", "\\ude48">>,
     <<"\\ud835", "\\ude49">>, <<"\\ud835", "\\ude4a">>, <<"\\ud835", "\\ude4b">>,
     <<"\\ud835", "\\ude4c">>, <<"\\ud835", "\\ude4d">>, <<"\\ud835", "\\ude4e">>,
     <<"\\ud835", "\\ude4f">>, <<"\\ud835", "\\ude50">>, <<"\\ud835", "\\ude51">>,
     <<"\\ud835", "\\ude52">>, <<"\\ud835", "\\ude53">>, <<"\\ud835", "\\ude54">>,
     <<"\\ud835", "\\ude55">>, <<"\\ud835", "\\ude56">>, <<"\\ud835", "\\ude57">>,
     <<"\\ud835", "\\ude58">>, <<"\\ud835", "\\ude59">>, <<"\\ud835", "\\ude5a">>,
     <<"\\ud835", "\\ude5b">>, <<"\\ud835", "\\ude5c">>, <<"\\ud835", "\\ude5d">>,
     <<"\\ud835", "\\ude5e">>, <<"\\ud835", "\\ude5f">>, <<"\\ud835", "\\ude60">>,
     <<"\\ud835", "\\ude61">>, <<"\\ud835", "\\ude62">>, <<"\\ud835", "\\ude63">>,
     <<"\\ud835", "\\ude64">>, <<"\\ud835", "\\ude65">>, <<"\\ud835", "\\ude66">>,
     <<"\\ud835", "\\ude67">>, <<"\\ud835", "\\ude68">>, <<"\\ud835", "\\ude69">>,
     <<"\\ud835", "\\ude6a">>, <<"\\ud835", "\\ude6b">>, <<"\\ud835", "\\ude6c">>,
     <<"\\ud835", "\\ude6d">>, <<"\\ud835", "\\ude6e">>, <<"\\ud835", "\\ude6f">>,
     <<"\\ud835", "\\ude70">>, <<"\\ud835", "\\ude71">>, <<"\\ud835", "\\ude72">>,
     <<"\\ud835", "\\ude73">>, <<"\\ud835", "\\ude74">>, <<"\\ud835", "\\ude75">>,
     <<"\\ud835", "\\ude76">>, <<"\\ud835", "\\ude77">>, <<"\\ud835", "\\ude78">>,
     <<"\\ud835", "\\ude79">>, <<"\\ud835", "\\ude7a">>, <<"\\ud835", "\\ude7b">>,
     <<"\\ud835", "\\ude7c">>, <<"\\ud835", "\\ude7d">>, <<"\\ud835", "\\ude7e">>,
     <<"\\ud835", "\\ude7f">>, <<"\\ud835", "\\ude80">>, <<"\\ud835", "\\ude81">>,
     <<"\\ud835", "\\ude82">>, <<"\\ud835", "\\ude83">>, <<"\\ud835", "\\ude84">>,
     <<"\\ud835", "\\ude85">>, <<"\\ud835", "\\ude86">>, <<"\\ud835", "\\ude87">>,
     <<"\\ud835", "\\ude88">>, <<"\\ud835", "\\ude89">>, <<"\\ud835", "\\ude8a">>,
     <<"\\ud835", "\\ude8b">>, <<"\\ud835", "\\ude8c">>, <<"\\ud835", "\\ude8d">>,
     <<"\\ud835", "\\ude8e">>, <<"\\ud835", "\\ude8f">>, <<"\\ud835", "\\ude90">>,
     <<"\\ud835", "\\ude91">>, <<"\\ud835", "\\ude92">>, <<"\\ud835", "\\ude93">>,
     <<"\\ud835", "\\ude94">>, <<"\\ud835", "\\ude95">>, <<"\\ud835", "\\ude96">>,
     <<"\\ud835", "\\ude97">>, <<"\\ud835", "\\ude98">>, <<"\\ud835", "\\ude99">>,
     <<"\\ud835", "\\ude9a">>, <<"\\ud835", "\\ude9b">>, <<"\\ud835", "\\ude9c">>,
     <<"\\ud835", "\\ude9d">>, <<"\\ud835", "\\ude9e">>, <<"\\ud835", "\\ude9f">>,
     <<"\\ud835", "\\udea0">>, <<"\\ud835", "\\udea1">>, <<"\\ud835", "\\udea2">>,
     <<"\\ud835", "\\udea3">>, <<"\\ud835", "\\udea4">>, <<"\\ud835", "\\udea5">>,
     <<"\\ud835", "\\udea8">>, <<"\\ud835", "\\udea9">>, <<"\\ud835", "\\udeaa">>,
     <<"\\ud835", "\\udeab">>, <<"\\ud835", "\\udeac">>, <<"\\ud835", "\\udead">>,
     <<"\\ud835", "\\udeae">>, <<"\\ud835", "\\udeaf">>, <<"\\ud835", "\\udeb0">>,
     <<"\\ud835", "\\udeb1">>, <<"\\ud835", "\\udeb2">>, <<"\\ud835", "\\udeb3">>,
     <<"\\ud835", "\\udeb4">>, <<"\\ud835", "\\udeb5">>, <<"\\ud835", "\\udeb6">>,
     <<"\\ud835", "\\udeb7">>, <<"\\ud835", "\\udeb8">>, <<"\\ud835", "\\udeb9">>,
     <<"\\ud835", "\\udeba">>, <<"\\ud835", "\\udebb">>, <<"\\ud835", "\\udebc">>,
     <<"\\ud835", "\\udebd">>, <<"\\ud835", "\\udebe">>, <<"\\ud835", "\\udebf">>,
     <<"\\ud835", "\\udec0">>, <<"\\ud835", "\\udec2">>, <<"\\ud835", "\\udec3">>,
     <<"\\ud835", "\\udec4">>, <<"\\ud835", "\\udec5">>, <<"\\ud835", "\\udec6">>,
     <<"\\ud835", "\\udec7">>, <<"\\ud835", "\\udec8">>, <<"\\ud835", "\\udec9">>,
     <<"\\ud835", "\\udeca">>, <<"\\ud835", "\\udecb">>, <<"\\ud835", "\\udecc">>,
     <<"\\ud835", "\\udecd">>, <<"\\ud835", "\\udece">>, <<"\\ud835", "\\udecf">>,
     <<"\\ud835", "\\uded0">>, <<"\\ud835", "\\uded1">>, <<"\\ud835", "\\uded2">>,
     <<"\\ud835", "\\uded3">>, <<"\\ud835", "\\uded4">>, <<"\\ud835", "\\uded5">>,
     <<"\\ud835", "\\uded6">>, <<"\\ud835", "\\uded7">>, <<"\\ud835", "\\uded8">>,
     <<"\\ud835", "\\uded9">>, <<"\\ud835", "\\udeda">>, <<"\\ud835", "\\udedc">>,
     <<"\\ud835", "\\udedd">>, <<"\\ud835", "\\udede">>, <<"\\ud835", "\\udedf">>,
     <<"\\ud835", "\\udee0">>, <<"\\ud835", "\\udee1">>, <<"\\ud835", "\\udee2">>,
     <<"\\ud835", "\\udee3">>, <<"\\ud835", "\\udee4">>, <<"\\ud835", "\\udee5">>,
     <<"\\ud835", "\\udee6">>, <<"\\ud835", "\\udee7">>, <<"\\ud835", "\\udee8">>,
     <<"\\ud835", "\\udee9">>, <<"\\ud835", "\\udeea">>, <<"\\ud835", "\\udeeb">>,
     <<"\\ud835", "\\udeec">>, <<"\\ud835", "\\udeed">>, <<"\\ud835", "\\udeee">>,
     <<"\\ud835", "\\udeef">>, <<"\\ud835", "\\udef0">>, <<"\\ud835", "\\udef1">>,
     <<"\\ud835", "\\udef2">>, <<"\\ud835", "\\udef3">>, <<"\\ud835", "\\udef4">>,
     <<"\\ud835", "\\udef5">>, <<"\\ud835", "\\udef6">>, <<"\\ud835", "\\udef7">>,
     <<"\\ud835", "\\udef8">>, <<"\\ud835", "\\udef9">>, <<"\\ud835", "\\udefa">>,
     <<"\\ud835", "\\udefc">>, <<"\\ud835", "\\udefd">>, <<"\\ud835", "\\udefe">>,
     <<"\\ud835", "\\udeff">>, <<"\\ud835", "\\udf00">>, <<"\\ud835", "\\udf01">>,
     <<"\\ud835", "\\udf02">>, <<"\\ud835", "\\udf03">>, <<"\\ud835", "\\udf04">>,
     <<"\\ud835", "\\udf05">>, <<"\\ud835", "\\udf06">>, <<"\\ud835", "\\udf07">>,
     <<"\\ud835", "\\udf08">>, <<"\\ud835", "\\udf09">>, <<"\\ud835", "\\udf0a">>,
     <<"\\ud835", "\\udf0b">>, <<"\\ud835", "\\udf0c">>, <<"\\ud835", "\\udf0d">>,
     <<"\\ud835", "\\udf0e">>, <<"\\ud835", "\\udf0f">>, <<"\\ud835", "\\udf10">>,
     <<"\\ud835", "\\udf11">>, <<"\\ud835", "\\udf12">>, <<"\\ud835", "\\udf13">>,
     <<"\\ud835", "\\udf14">>, <<"\\ud835", "\\udf16">>, <<"\\ud835", "\\udf17">>,
     <<"\\ud835", "\\udf18">>, <<"\\ud835", "\\udf19">>, <<"\\ud835", "\\udf1a">>,
     <<"\\ud835", "\\udf1b">>, <<"\\ud835", "\\udf1c">>, <<"\\ud835", "\\udf1d">>,
     <<"\\ud835", "\\udf1e">>, <<"\\ud835", "\\udf1f">>, <<"\\ud835", "\\udf20">>,
     <<"\\ud835", "\\udf21">>, <<"\\ud835", "\\udf22">>, <<"\\ud835", "\\udf23">>,
     <<"\\ud835", "\\udf24">>, <<"\\ud835", "\\udf25">>, <<"\\ud835", "\\udf26">>,
     <<"\\ud835", "\\udf27">>, <<"\\ud835", "\\udf28">>, <<"\\ud835", "\\udf29">>,
     <<"\\ud835", "\\udf2a">>, <<"\\ud835", "\\udf2b">>, <<"\\ud835", "\\udf2c">>,
     <<"\\ud835", "\\udf2d">>, <<"\\ud835", "\\udf2e">>, <<"\\ud835", "\\udf2f">>,
     <<"\\ud835", "\\udf30">>, <<"\\ud835", "\\udf31">>, <<"\\ud835", "\\udf32">>,
     <<"\\ud835", "\\udf33">>, <<"\\ud835", "\\udf34">>, <<"\\ud835", "\\udf36">>,
     <<"\\ud835", "\\udf37">>, <<"\\ud835", "\\udf38">>, <<"\\ud835", "\\udf39">>,
     <<"\\ud835", "\\udf3a">>, <<"\\ud835", "\\udf3b">>, <<"\\ud835", "\\udf3c">>,
     <<"\\ud835", "\\udf3d">>, <<"\\ud835", "\\udf3e">>, <<"\\ud835", "\\udf3f">>,
     <<"\\ud835", "\\udf40">>, <<"\\ud835", "\\udf41">>, <<"\\ud835", "\\udf42">>,
     <<"\\ud835", "\\udf43">>, <<"\\ud835", "\\udf44">>, <<"\\ud835", "\\udf45">>,
     <<"\\ud835", "\\udf46">>, <<"\\ud835", "\\udf47">>, <<"\\ud835", "\\udf48">>,
     <<"\\ud835", "\\udf49">>, <<"\\ud835", "\\udf4a">>, <<"\\ud835", "\\udf4b">>,
     <<"\\ud835", "\\udf4c">>, <<"\\ud835", "\\udf4d">>, <<"\\ud835", "\\udf4e">>,
     <<"\\ud835", "\\udf50">>, <<"\\ud835", "\\udf51">>, <<"\\ud835", "\\udf52">>,
     <<"\\ud835", "\\udf53">>, <<"\\ud835", "\\udf54">>, <<"\\ud835", "\\udf55">>,
     <<"\\ud835", "\\udf56">>, <<"\\ud835", "\\udf57">>, <<"\\ud835", "\\udf58">>,
     <<"\\ud835", "\\udf59">>, <<"\\ud835", "\\udf5a">>, <<"\\ud835", "\\udf5b">>,
     <<"\\ud835", "\\udf5c">>, <<"\\ud835", "\\udf5d">>, <<"\\ud835", "\\udf5e">>,
     <<"\\ud835", "\\udf5f">>, <<"\\ud835", "\\udf60">>, <<"\\ud835", "\\udf61">>,
     <<"\\ud835", "\\udf62">>, <<"\\ud835", "\\udf63">>, <<"\\ud835", "\\udf64">>,
     <<"\\ud835", "\\udf65">>, <<"\\ud835", "\\udf66">>, <<"\\ud835", "\\udf67">>,
     <<"\\ud835", "\\udf68">>, <<"\\ud835", "\\udf69">>, <<"\\ud835", "\\udf6a">>,
     <<"\\ud835", "\\udf6b">>, <<"\\ud835", "\\udf6c">>, <<"\\ud835", "\\udf6d">>,
     <<"\\ud835", "\\udf6e">>, <<"\\ud835", "\\udf70">>, <<"\\ud835", "\\udf71">>,
     <<"\\ud835", "\\udf72">>, <<"\\ud835", "\\udf73">>, <<"\\ud835", "\\udf74">>,
     <<"\\ud835", "\\udf75">>, <<"\\ud835", "\\udf76">>, <<"\\ud835", "\\udf77">>,
     <<"\\ud835", "\\udf78">>, <<"\\ud835", "\\udf79">>, <<"\\ud835", "\\udf7a">>,
     <<"\\ud835", "\\udf7b">>, <<"\\ud835", "\\udf7c">>, <<"\\ud835", "\\udf7d">>,
     <<"\\ud835", "\\udf7e">>, <<"\\ud835", "\\udf7f">>, <<"\\ud835", "\\udf80">>,
     <<"\\ud835", "\\udf81">>, <<"\\ud835", "\\udf82">>, <<"\\ud835", "\\udf83">>,
     <<"\\ud835", "\\udf84">>, <<"\\ud835", "\\udf85">>, <<"\\ud835", "\\udf86">>,
     <<"\\ud835", "\\udf87">>, <<"\\ud835", "\\udf88">>, <<"\\ud835", "\\udf8a">>,
     <<"\\ud835", "\\udf8b">>, <<"\\ud835", "\\udf8c">>, <<"\\ud835", "\\udf8d">>,
     <<"\\ud835", "\\udf8e">>, <<"\\ud835", "\\udf8f">>, <<"\\ud835", "\\udf90">>,
     <<"\\ud835", "\\udf91">>, <<"\\ud835", "\\udf92">>, <<"\\ud835", "\\udf93">>,
     <<"\\ud835", "\\udf94">>, <<"\\ud835", "\\udf95">>, <<"\\ud835", "\\udf96">>,
     <<"\\ud835", "\\udf97">>, <<"\\ud835", "\\udf98">>, <<"\\ud835", "\\udf99">>,
     <<"\\ud835", "\\udf9a">>, <<"\\ud835", "\\udf9b">>, <<"\\ud835", "\\udf9c">>,
     <<"\\ud835", "\\udf9d">>, <<"\\ud835", "\\udf9e">>, <<"\\ud835", "\\udf9f">>,
     <<"\\ud835", "\\udfa0">>, <<"\\ud835", "\\udfa1">>, <<"\\ud835", "\\udfa2">>,
     <<"\\ud835", "\\udfa3">>, <<"\\ud835", "\\udfa4">>, <<"\\ud835", "\\udfa5">>,
     <<"\\ud835", "\\udfa6">>, <<"\\ud835", "\\udfa7">>, <<"\\ud835", "\\udfa8">>,
     <<"\\ud835", "\\udfaa">>, <<"\\ud835", "\\udfab">>, <<"\\ud835", "\\udfac">>,
     <<"\\ud835", "\\udfad">>, <<"\\ud835", "\\udfae">>, <<"\\ud835", "\\udfaf">>,
     <<"\\ud835", "\\udfb0">>, <<"\\ud835", "\\udfb1">>, <<"\\ud835", "\\udfb2">>,
     <<"\\ud835", "\\udfb3">>, <<"\\ud835", "\\udfb4">>, <<"\\ud835", "\\udfb5">>,
     <<"\\ud835", "\\udfb6">>, <<"\\ud835", "\\udfb7">>, <<"\\ud835", "\\udfb8">>,
     <<"\\ud835", "\\udfb9">>, <<"\\ud835", "\\udfba">>, <<"\\ud835", "\\udfbb">>,
     <<"\\ud835", "\\udfbc">>, <<"\\ud835", "\\udfbd">>, <<"\\ud835", "\\udfbe">>,
     <<"\\ud835", "\\udfbf">>, <<"\\ud835", "\\udfc0">>, <<"\\ud835", "\\udfc1">>,
     <<"\\ud835", "\\udfc2">>, <<"\\ud835", "\\udfc4">>, <<"\\ud835", "\\udfc5">>,
     <<"\\ud835", "\\udfc6">>, <<"\\ud835", "\\udfc7">>, <<"\\ud835", "\\udfc8">>,
     <<"\\ud835", "\\udfc9">>, <<"\\ud835", "\\udfca">>, <<"\\ud835", "\\udfcb">>,
     <<"\\ud837", "\\udf00">>, <<"\\ud837", "\\udf01">>, <<"\\ud837", "\\udf02">>,
     <<"\\ud837", "\\udf03">>, <<"\\ud837", "\\udf04">>, <<"\\ud837", "\\udf05">>,
     <<"\\ud837", "\\udf06">>, <<"\\ud837", "\\udf07">>, <<"\\ud837", "\\udf08">>,
     <<"\\ud837", "\\udf09">>, <<"\\ud837", "\\udf0b">>, <<"\\ud837", "\\udf0c">>,
     <<"\\ud837", "\\udf0d">>, <<"\\ud837", "\\udf0e">>, <<"\\ud837", "\\udf0f">>,
     <<"\\ud837", "\\udf10">>, <<"\\ud837", "\\udf11">>, <<"\\ud837", "\\udf12">>,
     <<"\\ud837", "\\udf13">>, <<"\\ud837", "\\udf14">>, <<"\\ud837", "\\udf15">>,
     <<"\\ud837", "\\udf16">>, <<"\\ud837", "\\udf17">>, <<"\\ud837", "\\udf18">>,
     <<"\\ud837", "\\udf19">>, <<"\\ud837", "\\udf1a">>, <<"\\ud837", "\\udf1b">>,
     <<"\\ud837", "\\udf1c">>, <<"\\ud837", "\\udf1d">>, <<"\\ud837", "\\udf1e">>,
     <<"\\ud837", "\\udf25">>, <<"\\ud837", "\\udf26">>, <<"\\ud837", "\\udf27">>,
     <<"\\ud837", "\\udf28">>, <<"\\ud837", "\\udf29">>, <<"\\ud837", "\\udf2a">>,
     <<"\\ud83a", "\\udd00">>, <<"\\ud83a", "\\udd01">>, <<"\\ud83a", "\\udd02">>,
     <<"\\ud83a", "\\udd03">>, <<"\\ud83a", "\\udd04">>, <<"\\ud83a", "\\udd05">>,
     <<"\\ud83a", "\\udd06">>, <<"\\ud83a", "\\udd07">>, <<"\\ud83a", "\\udd08">>,
     <<"\\ud83a", "\\udd09">>, <<"\\ud83a", "\\udd0a">>, <<"\\ud83a", "\\udd0b">>,
     <<"\\ud83a", "\\udd0c">>, <<"\\ud83a", "\\udd0d">>, <<"\\ud83a", "\\udd0e">>,
     <<"\\ud83a", "\\udd0f">>, <<"\\ud83a", "\\udd10">>, <<"\\ud83a", "\\udd11">>,
     <<"\\ud83a", "\\udd12">>, <<"\\ud83a", "\\udd13">>, <<"\\ud83a", "\\udd14">>,
     <<"\\ud83a", "\\udd15">>, <<"\\ud83a", "\\udd16">>, <<"\\ud83a", "\\udd17">>,
     <<"\\ud83a", "\\udd18">>, <<"\\ud83a", "\\udd19">>, <<"\\ud83a", "\\udd1a">>,
     <<"\\ud83a", "\\udd1b">>, <<"\\ud83a", "\\udd1c">>, <<"\\ud83a", "\\udd1d">>,
     <<"\\ud83a", "\\udd1e">>, <<"\\ud83a", "\\udd1f">>, <<"\\ud83a", "\\udd20">>,
     <<"\\ud83a", "\\udd21">>, <<"\\ud83a", "\\udd22">>, <<"\\ud83a", "\\udd23">>,
     <<"\\ud83a", "\\udd24">>, <<"\\ud83a", "\\udd25">>, <<"\\ud83a", "\\udd26">>,
     <<"\\ud83a", "\\udd27">>, <<"\\ud83a", "\\udd28">>, <<"\\ud83a", "\\udd29">>,
     <<"\\ud83a", "\\udd2a">>, <<"\\ud83a", "\\udd2b">>, <<"\\ud83a", "\\udd2c">>,
     <<"\\ud83a", "\\udd2d">>, <<"\\ud83a", "\\udd2e">>, <<"\\ud83a", "\\udd2f">>,
     <<"\\ud83a", "\\udd30">>, <<"\\ud83a", "\\udd31">>, <<"\\ud83a", "\\udd32">>,
     <<"\\ud83a", "\\udd33">>, <<"\\ud83a", "\\udd34">>, <<"\\ud83a", "\\udd35">>,
     <<"\\ud83a", "\\udd36">>, <<"\\ud83a", "\\udd37">>, <<"\\ud83a", "\\udd38">>,
     <<"\\ud83a", "\\udd39">>, <<"\\ud83a", "\\udd3a">>, <<"\\ud83a", "\\udd3b">>,
     <<"\\ud83a", "\\udd3c">>, <<"\\ud83a", "\\udd3d">>, <<"\\ud83a", "\\udd3e">>,
     <<"\\ud83a", "\\udd3f">>, <<"\\ud83a", "\\udd40">>, <<"\\ud83a", "\\udd41">>,
     <<"\\ud83a", "\\udd42">>, <<"\\ud83a", "\\udd43">>, <<"\\ud83c", "\\udd30">>,
     <<"\\ud83c", "\\udd31">>, <<"\\ud83c", "\\udd32">>, <<"\\ud83c", "\\udd33">>,
     <<"\\ud83c", "\\udd34">>, <<"\\ud83c", "\\udd35">>, <<"\\ud83c", "\\udd36">>,
     <<"\\ud83c", "\\udd37">>, <<"\\ud83c", "\\udd38">>, <<"\\ud83c", "\\udd39">>,
     <<"\\ud83c", "\\udd3a">>, <<"\\ud83c", "\\udd3b">>, <<"\\ud83c", "\\udd3c">>,
     <<"\\ud83c", "\\udd3d">>, <<"\\ud83c", "\\udd3e">>, <<"\\ud83c", "\\udd3f">>,
     <<"\\ud83c", "\\udd40">>, <<"\\ud83c", "\\udd41">>, <<"\\ud83c", "\\udd42">>,
     <<"\\ud83c", "\\udd43">>, <<"\\ud83c", "\\udd44">>, <<"\\ud83c", "\\udd45">>,
     <<"\\ud83c", "\\udd46">>, <<"\\ud83c", "\\udd47">>, <<"\\ud83c", "\\udd48">>,
     <<"\\ud83c", "\\udd49">>, <<"\\ud83c", "\\udd50">>, <<"\\ud83c", "\\udd51">>,
     <<"\\ud83c", "\\udd52">>, <<"\\ud83c", "\\udd53">>, <<"\\ud83c", "\\udd54">>,
     <<"\\ud83c", "\\udd55">>, <<"\\ud83c", "\\udd56">>, <<"\\ud83c", "\\udd57">>,
     <<"\\ud83c", "\\udd58">>, <<"\\ud83c", "\\udd59">>, <<"\\ud83c", "\\udd5a">>,
     <<"\\ud83c", "\\udd5b">>, <<"\\ud83c", "\\udd5c">>, <<"\\ud83c", "\\udd5d">>,
     <<"\\ud83c", "\\udd5e">>, <<"\\ud83c", "\\udd5f">>, <<"\\ud83c", "\\udd60">>,
     <<"\\ud83c", "\\udd61">>, <<"\\ud83c", "\\udd62">>, <<"\\ud83c", "\\udd63">>,
     <<"\\ud83c", "\\udd64">>, <<"\\ud83c", "\\udd65">>, <<"\\ud83c", "\\udd66">>,
     <<"\\ud83c", "\\udd67">>, <<"\\ud83c", "\\udd68">>, <<"\\ud83c", "\\udd69">>,
     <<"\\ud83c", "\\udd70">>, <<"\\ud83c", "\\udd71">>, <<"\\ud83c", "\\udd72">>,
     <<"\\ud83c", "\\udd73">>, <<"\\ud83c", "\\udd74">>, <<"\\ud83c", "\\udd75">>,
     <<"\\ud83c", "\\udd76">>, <<"\\ud83c", "\\udd77">>, <<"\\ud83c", "\\udd78">>,
     <<"\\ud83c", "\\udd79">>, <<"\\ud83c", "\\udd7a">>, <<"\\ud83c", "\\udd7b">>,
     <<"\\ud83c", "\\udd7c">>, <<"\\ud83c", "\\udd7d">>, <<"\\ud83c", "\\udd7e">>,
     <<"\\ud83c", "\\udd7f">>, <<"\\ud83c", "\\udd80">>, <<"\\ud83c", "\\udd81">>,
     <<"\\ud83c", "\\udd82">>, <<"\\ud83c", "\\udd83">>, <<"\\ud83c", "\\udd84">>,
     <<"\\ud83c", "\\udd85">>, <<"\\ud83c", "\\udd86">>, <<"\\ud83c", "\\udd87">>,
     <<"\\ud83c", "\\udd88">>, <<"\\ud83c", "\\udd89">> }

\* the white space String.prototype.trim removes: the WhiteSpace and
\* LineTerminator code points U+0009..U+000D, U+0020, U+00A0, U+1680,
\* U+2000..U+200A, U+2028, U+2029, U+202F, U+205F, U+3000 and U+FEFF
WhiteChars ==
  {
     "\t", "\n", "", "\f", "\r", " ", " ", " ", "\\u2000", "\\u2001", "\\u2002", "\\u2003",
     "\\u2004", "\\u2005", "\\u2006", "\\u2007", "\\u2008", "\\u2009", "\\u200a", "\\u2028",
     "\\u2029", "\\u202f", "\\u205f", "\\u3000", "﻿" }

DigitChars == <<"0", "1", "2", "3", "4", "5", "6", "7", "8", "9">>

IsDigit(c) == \E i \in 1..10 : DigitChars[i] = c

DigitVal(c) == (CHOOSE i \in 1..10 : DigitChars[i] = c) - 1

\* toLowerCase of one code point, as a function on the code points it changes
LowerOf ==
  [p \in {UpperChars[i] : i \in DOMAIN UpperChars} |->
     LowerChars[CHOOSE i \in DOMAIN UpperChars : UpperChars[i] = p]]

\* String.prototype.toLowerCase of the code point p, out of context
ToLowerPoint(p) == IF p \in DOMAIN LowerOf THEN LowerOf[p] ELSE p

\* String.prototype.toLowerCase of the one-unit string <<c>>
ToLowerChar(c) == ToLowerPoint(<<c>>)

\* s[i] is the trail unit of a surrogate pair
IsTrail(s, i) == i > 1 /\ s[i] \in LowSurrogates /\ s[i - 1] \in HighSurrogates

\* the code point that starts at s[i]
PointAt(s, i) ==
  IF s[i] \in HighSurrogates /\ i < Len(s) /\ s[i + 1] \in LowSurrogates
    THEN <<s[i], s[i + 1]>>
    ELSE <<s[i]>>

\* the Final_Sigma context of s[i]: a cased letter before it and none after
\* it, case-ignorable code points skipped on both sides
FinalSigma(s, i) ==
  /\ \E j \in 1..(i - 1) :
        /\ ~IsTrail(s, j)
        /\ PointAt(s, j) \in CasedLetters
        /\ \A k \in (j + 1)..(i - 1) : IsTrail(s, k) \/ PointAt(s, k) \in CaseIgnorable
  /\ ~\E j \in (i + 1)..Len(s) :
        /\ ~IsTrail(s, j)
        /\ PointAt(s, j) \in CasedLetters
        /\ \A k \in (i + 1)..(j - 1) : IsTrail(s, k) \/ PointAt(s, k) \in CaseIgnorable

\* what toLowerCase puts in the place of each unit of s: the lowered code point
\* at the unit that starts it, nothing at a trail unit; a capital sigma that
\* ends a word becomes the final sigma
LowerPieces(s) ==
  [i \in 1..Len(s) |->
     IF IsTrail(s, i) THEN <<>>
     ELSE IF s[i] = "Σ" /\ FinalSigma(s, i) THEN <<"ς">>
     ELSE ToLowerPoint(PointAt(s, i))]

RECURSIVE JoinFrom(_, _)
JoinFrom(pieces, i) ==
  IF i > Len(pieces) THEN <<>> ELSE pieces[i] \o JoinFrom(pieces, i + 1)

\* the pieces in one string
JoinPieces(pieces) ==
  IF \A i \in 1..Len(pieces) : Len(pieces[i]) = 1
    THEN [i \in 1..Len(pieces) |-> pieces[i][1]]
    ELSE JoinFrom(pieces, 1)

\* String.prototype.toLowerCase
ToLowerCase(s) == JoinPieces(LowerPieces(s))

IsWhite(c) == c \in WhiteChars

RECURSIVE TrimStart(_)
TrimStart(s) == IF s # <<>> /\ IsWhite(Head(s)) THEN TrimStart(Tail(s)) ELSE s

RECURSIVE TrimEnd(_)
TrimEnd(s) ==
  IF s # <<>> /\ IsWhite(s[Len(s)]) THEN TrimEnd(SubSeq(s, 1, Len(s) - 1)) ELSE s

Trim(s) == TrimEnd(TrimStart(s))

StartsWith(s, p) == Len(s) >= Len(p) /\ SubSeq(s, 1, Len(p)) = p

Includes(s, p) ==
  \E i \in 0..(Len(s) - Len(p)) : SubSeq(s, i + 1, i + Len(p)) = p

\* s.split(sep)[0]
FirstSegment(s, sep) ==
  IF \E i \in 1..Len(s) : s[i] = sep
    THEN SubSeq(s, 1, (CHOOSE i \in 1..Len(s) :
                         s[i] = sep /\ \A j \in 1..(i - 1) : s[j] # sep) - 1)
    ELSE s

\* the last element of s.split(sep)
LastSegment(s, sep) ==
  IF \E i \in 1..Len(s) : s[i] = sep
    THEN SubSeq(s, (CHOOSE i \in 1..Len(s) :
                      s[i] = sep /\ \A j \in (i + 1)..Len(s) : s[j] # sep) + 1, Len(s))
    ELSE s

\* String(n) for a non-negative integer
RECURSIVE NumToStr(_)
NumToStr(n) ==
  IF n < 10 THEN <<DigitChars[n + 1]>>
            ELSE NumToStr(n \div 10) \o <<DigitChars[(n % 10) + 1]>>

\* !x for a value of type string | null | undefined
Falsy(x) == x = None \/ x = <<>>

\* a ?? b
Coalesce(a, b) == IF a = None THEN b ELSE a

(****************************** route: dates ******************************)

MAX_WINDOW_DAYS == 30
TOTAL_TIMEOUT_MS == 120000

\* DATE_ONLY_REGEX = /^\d{4}-\d{2}-\d{2}$/
DateOnlyRegexTest(s) ==
  /\ Len(s) = 10
  /\ \A i \in {1, 2, 3, 4, 6, 7, 9, 10} : IsDigit(s[i])
  /\ s[5] = "-"
  /\ s[8] = "-"

Num2(s, i) == DigitVal(s[i]) * 10 + DigitVal(s[i + 1])

\* days from 1970-01-01 to the civil date y-m-d (proleptic Gregorian); d may
\* exceed the length of the month, as in the engine's MakeDay
DaysFromCivil(y, m, d) ==
  LET yy  == IF m <= 2 THEN y - 1 ELSE y
      era == yy \div 400
      yoe == yy - era * 400
      mp  == IF m > 2 THEN m - 3 ELSE m + 9
      doy == (153 * mp + 2) \div 5 + d - 1
      doe == yoe * 365 + yoe \div 4 - yoe \div 100 + doy
  IN  era * 146097 + doe - 719468

\* new Date(`${s}T00:00:00Z`) for s of the YYYY-MM-DD shape, on the nodejs
\* runtime the route declares: the ISO parser accepts month 1..12 and day
\* 1..31 for every month and MakeDay carries the overflow into the next month.
\* Every instant parsed here is a UTC midnight, so getTime() is days * 86400000
\* exactly; the model keeps the time value in whole days.
ParseDate(s) ==
  LET y == Num2(s, 1) * 100 + Num2(s, 3)
      m == Num2(s, 6)
      d == Num2(s, 9)
  IN  IF m \in 1..12 /\ d \in 1..31
        THEN [nan |-> FALSE, days |-> DaysFromCivil(y, m, d)]
        ELSE [nan |-> TRUE, days |-> 0]

\* DaySpan without the inclusive + 1
DaySpan_NoInclusive(startDate, endDate) == endDate.days - startDate.days

\* Math.floor((endDate.getTime() - startDate.getTime()) / 86400000) + 1
DaySpan(startDate, endDate) == (endDate.days - startDate.days) + 1

\* toIsoRange
ToIsoRange(start, end) ==
  [startIso |-> start \o <<"T", "0", "0", ":", "0", "0", ":", "0", "0", "Z">>, endIso |-> end \o <<"T", "2", "3", ":", "5", "9", ":", "5", "9", "Z">>]

\* normalizeModelName; undefined is None
NormalizeModelName(input) ==
  IF Falsy(input) THEN None
  ELSE LET trimmed == Trim(input)
       IN  IF trimmed = <<>> THEN None
           ELSE LET last == LastSegment(trimmed, "/")
                IN  IF last = <<>> THEN trimmed ELSE last

(********************************* errors *********************************)

NoStatus == -1

\* new HttpError(status, message)
HttpError(status, message) ==
  [kind |-> "HttpError", upstream |-> "none", status |-> status, message |-> message]

\* new UpstreamError(upstream, status, message)
UpstreamError(upstream, status, message) ==
  [kind |-> "UpstreamError", upstream |-> upstream, status |-> status, message |-> message]

\* the DOMException a fetch or a model call rejects with once its signal is aborted
AbortError ==
  [kind |-> "AbortError", upstream |-> "none", status |-> NoStatus,
   message |-> <<"T", "h", "i", "s", " ", "o", "p", "e", "r", "a", "t", "i", "o", "n", " ", "w", "a", "s", " ", "a", "b", "o", "r", "t", "e", "d">>]

\* any other Error instance (TypeError of a failed fetch, SyntaxError of a bad body)
PlainError(message) ==
  [kind |-> "Error", upstream |-> "none", status |-> NoStatus, message |-> message]

\* an error the model provider raises: status is a number or absent (NoStatus)
ProviderError(status, message) ==
  [kind |-> "ProviderError", upstream |-> "none", status |-> status, message |-> message]

MsgTimeout == <<"P", "r", "o", "c", "e", "s", "s", "i", "n", "g", " ", "e", "x", "c", "e", "e", "d", "e", "d", " ", "t", "h", "e", " ", "1", "2", "0", "s", " ", "t", "i", "m", "e", "o", "u", "t", ".">>

\* buildErrorResponse(message, status)
BuildErrorResponse(message, status) ==
  [status |-> status, message |-> message, body |-> <<>>]

\* the status the route gives an UpstreamError
UpstreamStatus(error) == IF error.status >= 400 THEN error.status ELSE 502

\* the catch block of GET without its first test of signal.aborted
CatchResponse_NoAbortCheck(error, signalAborted) ==
  IF error.kind = "HttpError" THEN BuildErrorResponse(error.message, error.status)
  ELSE IF error.kind = "UpstreamError"
    THEN BuildErrorResponse(error.message, UpstreamStatus(error))
  ELSE IF error.kind = "AbortError" THEN BuildErrorResponse(MsgTimeout, 504)
  ELSE BuildErrorResponse(error.message, 502)

\* the catch block of GET
CatchResponse(error, signalAborted) ==
  IF signalAborted THEN BuildErrorResponse(MsgTimeout, 504)
  ELSE IF error.kind = "HttpError" THEN BuildErrorResponse(error.message, error.status)
  ELSE IF error.kind = "UpstreamError"
    THEN BuildErrorResponse(error.message, UpstreamStatus(error))
  ELSE IF error.kind = "AbortError" THEN BuildErrorResponse(MsgTimeout, 504)
  ELSE BuildErrorResponse(error.message, 502)

(************************* fetchCommitsFromGitHub *************************)

PER_PAGE == 100

\* commit.commit?.message ?? ""
RawMessage(commit) == Coalesce(commit.message, <<>>)

\* message.split("\n")[0]?.trim() ?? ""
SummaryLineOf(commit) == Trim(FirstSegment(RawMessage(commit), "\n"))

\* IsMerge without toLowerCase
IsMerge_CaseSensitive(commit) ==
  \/ commit.parents > 1
  \/ StartsWith(SummaryLineOf(commit), <<"m", "e", "r", "g", "e">>)

\* (Array.isArray(commit.parents) && commit.parents.length > 1) ||
\*   summaryLine.toLowerCase().startsWith("merge")
\* parents is the length of the array, -1 when the field is no array
IsMerge(commit) ==
  \/ commit.parents > 1
  \/ StartsWith(ToLowerCase(SummaryLineOf(commit)), <<"m", "e", "r", "g", "e">>)

\* the date of a record taken from the clock whatever the host gave
ResolveDate_AlwaysNow(commit, now) == now

\* author.date ?? committer.date ?? new Date().toISOString()
ResolveDate(commit, now) == Coalesce(commit.authorDate, Coalesce(commit.committerDate, now))

\* the record with its date taken from the committer before the author
NormalizeCommit_CommitterFirst(commit, now) ==
  [sha          |-> commit.sha,
   date         |-> Coalesce(commit.committerDate, Coalesce(commit.authorDate, now)),
   author       |-> [login |-> commit.login,
                     name  |-> Coalesce(commit.authorName, commit.committerName)],
   message      |-> RawMessage(commit),
   summary_line |-> SummaryLineOf(commit),
   is_merge     |-> FALSE]

\* the CommitSummary pushed for a raw record that is no merge
NormalizeCommit(commit, now) ==
  [sha          |-> commit.sha,
   date         |-> ResolveDate(commit, now),
   author       |-> [login |-> commit.login,
                     name  |-> Coalesce(commit.authorName, commit.committerName)],
   message      |-> RawMessage(commit),
   summary_line |-> SummaryLineOf(commit),
   is_merge     |-> FALSE]

\* the for loop without `continue`: merges are pushed too, flagged
NormalizePage_FlagMerges(pageCommits, now) ==
  [i \in 1..Len(pageCommits) |->
     [NormalizeCommit(pageCommits[i], now) EXCEPT !.is_merge = IsMerge(pageCommits[i])]]

\* the for loop over one page: merges are skipped, the rest pushed in order
NormalizePage(pageCommits, now) ==
  LET kept == SelectSeq(pageCommits, LAMBDA c : ~IsMerge(c))
  IN  [i \in 1..Len(kept) |-> NormalizeCommit(kept[i], now)]

MsgRateLimitGeneric == <<"G", "i", "t", "H", "u", "b", " ", "A", "P", "I", " ", "r", "a", "t", "e", " ", "l", "i", "m", "i", "t", " ", "o", "r", " ", "p", "e", "r", "m", "i", "s", "s", "i", "o", "n", " ", "e", "r", "r", "o", "r", ".">>
SecondaryRateLimit == <<"s", "e", "c", "o", "n", "d", "a", "r", "y", " ", "r", "a", "t", "e", " ", "l", "i", "m", "i", "t">>

\* the fixed message whatever the body says
RateLimitMessage_AlwaysGeneric(bodyMessage) == MsgRateLimitGeneric

\* typeof body?.message === "string" ? body.message : ...   (status 403 / 429)
RateLimitMessage(bodyMessage) ==
  IF bodyMessage # None THEN bodyMessage ELSE MsgRateLimitGeneric

\* typeof body?.message === "string" ? body.message : ...   (any other non-ok status)
FailureMessage(status, bodyMessage) ==
  IF bodyMessage # None THEN bodyMessage
  ELSE <<"G", "i", "t", "H", "u", "b", " ", "A", "P", "I", " ", "r", "e", "q", "u", "e", "s", "t", " ", "f", "a", "i", "l", "e", "d", " ", "w", "i", "t", "h", " ", "s", "t", "a", "t", "u", "s", " ">> \o NumToStr(status) \o <<".">>

\* the phrase test without toLowerCase
IsSecondaryRateLimit_CaseSensitive(message) == Includes(message, SecondaryRateLimit)

\* message.toLowerCase().includes("secondary rate limit")
IsSecondaryRateLimit(message) == Includes(ToLowerCase(message), SecondaryRateLimit)

\* response.ok
ResponseOk(status) == status \in 200..299

\* what fetchCommitsFromGitHub throws for a response that is not a page:
\* bodyMessage is body.message when the body parses and carries a string, else None
GitHubFailure(status, bodyMessage) ==
  IF status = 403 \/ status = 429
    THEN LET message == RateLimitMessage(bodyMessage)
         IN  IF IsSecondaryRateLimit(message)
               THEN HttpError(429, message)
               ELSE UpstreamError("github", status, message)
    ELSE UpstreamError("github", status, FailureMessage(status, bodyMessage))

\* the test that ends the page loop, made on the records left after the merges
\* are dropped
LastPage_AfterFilter(pageCommits) ==
  Len(SelectSeq(pageCommits, LAMBDA c : ~IsMerge(c))) < PER_PAGE

\* pageCommits.length < PER_PAGE
LastPage(pageCommits) == Len(pageCommits) < PER_PAGE

\* the records of a page put in front of the ones collected before
PushAll_InFront(normalized, records) == records \o normalized

\* normalized.push(...) for every record of a page that is kept
PushAll(normalized, records) == normalized \o records
(*************************** generateSummaryHtml ***************************)

\* escapeHtml with the two quote characters left out of the pattern
EscapeChar_QuotesKept(c) ==
  CASE c = "&"  -> <<"&", "a", "m", "p", ";">>
    [] c = "<"  -> <<"&", "l", "t", ";">>
    [] c = ">"  -> <<"&", "g", "t", ";">>
    [] OTHER    -> <<c>>

\* escapeHtml, one character
EscapeChar(c) ==
  CASE c = "&"  -> <<"&", "a", "m", "p", ";">>
    [] c = "<"  -> <<"&", "l", "t", ";">>
    [] c = ">"  -> <<"&", "g", "t", ";">>
    [] c = "\"" -> <<"&", "q", "u", "o", "t", ";">>
    [] c = "'"  -> <<"&", "#", "3", "9", ";">>
    [] OTHER    -> <<c>>

\* escapeHtml on input[lo..hi]: the replacements, concatenated in order
RECURSIVE EscapeRange(_, _, _)
EscapeRange(input, lo, hi) ==
  IF lo > hi THEN <<>>
  ELSE IF lo = hi THEN EscapeChar(input[lo])
  ELSE LET mid == (lo + hi) \div 2
       IN  EscapeRange(input, lo, mid) \o EscapeRange(input, mid + 1, hi)

\* escapeHtml
EscapeHtml(input) == EscapeRange(input, 1, Len(input))

Pad2(n) == IF n < 10 THEN <<"0">> \o NumToStr(n) ELSE NumToStr(n)

Pad4(n) ==
  IF n < 10 THEN <<"0", "0", "0">> \o NumToStr(n)
  ELSE IF n < 100 THEN <<"0", "0">> \o NumToStr(n)
  ELSE IF n < 1000 THEN <<"0">> \o NumToStr(n)
  ELSE NumToStr(n)

\* the civil date of a day number (inverse of DaysFromCivil)
CivilFromDays(days) ==
  LET z   == days + 719468
      era == z \div 146097
      doe == z - era * 146097
      yoe == (doe - doe \div 1460 + doe \div 36524 - doe \div 146096) \div 365
      doy == doe - (365 * yoe + yoe \div 4 - yoe \div 100)
      mp  == (5 * doy + 2) \div 153
      d   == doy - (153 * mp + 2) \div 5 + 1
      m   == IF mp < 10 THEN mp + 3 ELSE mp - 9
      y   == yoe + era * 400 + (IF m <= 2 THEN 1 ELSE 0)
  IN  [y |-> y, m |-> m, d |-> d]

\* minutes east of UTC of the zone designator that ends an ISO timestamp
ZoneMinutes(zone) ==
  IF zone = <<"Z">> THEN 0
  ELSE (IF zone[1] = "-" THEN -1 ELSE 1) * (Num2(zone, 2) * 60 + Num2(zone, 5))

\* the year of toISOString: four digits for the years 0 to 9999, a sign and
\* six digits for the others
IsoYear(y) ==
  LET Pad6(n) == IF n < 10000 THEN <<"0", "0">> \o Pad4(n)
                 ELSE IF n < 100000 THEN <<"0">> \o NumToStr(n)
                 ELSE NumToStr(n)
  IN  IF y \in 0..9999 THEN Pad4(y)
      ELSE (IF y < 0 THEN <<"-">> ELSE <<"+">>)
             \o Pad6(IF y < 0 THEN 0 - y ELSE y)

\* new Date(date).toISOString().slice(0, 10) for an ISO timestamp
\* YYYY-MM-DDTHH:MM:SS[.sss](Z|+HH:MM|-HH:MM): the first ten characters of the
\* UTC date, which are the calendar day when the UTC year is within 0..9999
IsoDay(date) ==
  LET y       == Num2(date, 1) * 100 + Num2(date, 3)
      m       == Num2(date, 6)
      d       == Num2(date, 9)
      minutes == Num2(date, 12) * 60 + Num2(date, 15)
      rest    == SubSeq(date, 20, Len(date))
      zone    == IF rest # <<>> /\ rest[1] = "." THEN SubSeq(rest, 5, Len(rest)) ELSE rest
      utc     == minutes - ZoneMinutes(zone)
      c       == CivilFromDays(DaysFromCivil(y, m, d) + utc \div 1440)
  IN  SubSeq(IsoYear(c.y) \o <<"-">> \o Pad2(c.m) \o <<"-">> \o Pad2(c.d), 1, 10)

MsgUnknownDate == <<"U", "n", "k", "n", "o", "w", "n", " ", "d", "a", "t", "e">>

\* the day key cut from the date string as the host wrote it
DayKey_AsWritten(commit) == SubSeq(commit.date, 1, 10)

\* commit.date ? new Date(commit.date).toISOString().slice(0, 10) : "Unknown date"
DayKey(commit) == IF Falsy(commit.date) THEN MsgUnknownDate ELSE IsoDay(commit.date)

\* UTF-16 code unit order on the characters day keys are made of
KeyChars == <<" ", "+", "-", "0", "1", "2", "3", "4", "5", "6", "7", "8", "9", "U", "a", "d", "e", "k", "n", "o", "t", "w">>

CharOrd(c) == CHOOSE i \in 1..Len(KeyChars) : KeyChars[i] = c

\* a <= b on strings
RECURSIVE StrLeq(_, _)
StrLeq(a, b) ==
  IF a = <<>> THEN TRUE
  ELSE IF b = <<>> THEN FALSE
  ELSE IF Head(a) = Head(b) THEN StrLeq(Tail(a), Tail(b))
  ELSE CharOrd(Head(a)) < CharOrd(Head(b))

\* the keys of `grouped`, in insertion order (first occurrence of each day)
GroupKeys(commits) ==
  LET keySet   == {DayKey(commits[i]) : i \in 1..Len(commits)}
      First(k) == CHOOSE i \in 1..Len(commits) :
                    /\ DayKey(commits[i]) = k
                    /\ \A j \in 1..(i - 1) : DayKey(commits[j]) # k
      firsts   == {First(k) : k \in keySet}
      ordered  == SelectSeq([i \in 1..Len(commits) |-> i], LAMBDA i : i \in firsts)
  IN  [n \in 1..Len(ordered) |-> DayKey(commits[ordered[n]])]

\* insertion of key k into the ascending sequence ks
RECURSIVE InsertKey(_, _)
InsertKey(k, ks) ==
  IF ks = <<>> THEN <<k>>
  ELSE IF StrLeq(k, Head(ks)) THEN <<k>> \o ks
  ELSE <<Head(ks)>> \o InsertKey(k, Tail(ks))

\* Object.entries(grouped).sort(([a], [b]) => (a <= b ? -1 : 1)): keys are
\* distinct, so the comparator orders them ascending
RECURSIVE SortKeys(_)
SortKeys(ks) == IF ks = <<>> THEN <<>> ELSE InsertKey(Head(ks), SortKeys(Tail(ks)))

\* commit.summary_line || commit.message.split("\n")[0] || commit.sha
FallbackLine(commit) ==
  IF commit.summary_line # <<>> THEN commit.summary_line
  ELSE IF FirstSegment(commit.message, "\n") # <<>> THEN FirstSegment(commit.message, "\n")
  ELSE commit.sha

\* the <li> item of one commit
DayItem(commit) ==
  <<"<", "l", "i", ">", "<", "s", "t", "r", "o", "n", "g", ">">> \o EscapeHtml(FallbackLine(commit)) \o <<"<", "/", "s", "t", "r", "o", "n", "g", ">", "<", "/", "l", "i", ">">>

\* items.map(...).join("") over items[lo..hi]
RECURSIVE JoinItems(_, _, _)
JoinItems(items, lo, hi) ==
  IF lo > hi THEN <<>>
  ELSE IF lo = hi THEN DayItem(items[lo])
  ELSE LET mid == (lo + hi) \div 2
       IN  JoinItems(items, lo, mid) \o JoinItems(items, mid + 1, hi)

\* grouped[key]: the commits of one day, in batch order
DayCommits(commits, key) == SelectSeq(commits, LAMBDA c : DayKey(c) = key)

\* the <li> items of one day
DayItems(commits, key) ==
  JoinItems(DayCommits(commits, key), 1, Len(DayCommits(commits, key)))

\* one <article> of the fallback
DaySection(commits, key) ==
  <<"\n", " ", " ", " ", " ", " ", " ", " ", " ", "<", "a", "r", "t", "i", "c", "l", "e", ">", "\n", " ", " ", " ", " ", " ", " ", " ", " ", " ", " ", "<", "h", "3", ">">> \o key
    \o <<"<", "/", "h", "3", ">", "\n", " ", " ", " ", " ", " ", " ", " ", " ", " ", " ", "<", "u", "l", ">", "\n", " ", " ", " ", " ", " ", " ", " ", " ", " ", " ", " ", " ">> \o DayItems(commits, key)
    \o <<"\n", " ", " ", " ", " ", " ", " ", " ", " ", " ", " ", "<", "/", "u", "l", ">", "\n", " ", " ", " ", " ", " ", " ", " ", " ", "<", "/", "a", "r", "t", "i", "c", "l", "e", ">", "\n", " ", " ", " ", " ", " ", " ">>

RECURSIVE DaySections(_, _)
DaySections(commits, keys) ==
  IF keys = <<>> THEN <<>>
  ELSE DaySection(commits, Head(keys)) \o DaySections(commits, Tail(keys))

MonthNames ==
  << <<"J", "a", "n", "u", "a", "r", "y">>, <<"F", "e", "b", "r", "u", "a", "r", "y">>, <<"M", "a", "r", "c", "h">>, <<"A", "p", "r", "i", "l">>, <<"M", "a", "y">>, <<"J", "u", "n", "e">>,
     <<"J", "u", "l", "y">>, <<"A", "u", "g", "u", "s", "t">>, <<"S", "e", "p", "t", "e", "m", "b", "e", "r">>, <<"O", "c", "t", "o", "b", "e", "r">>, <<"N", "o", "v", "e", "m", "b", "e", "r">>,
     <<"D", "e", "c", "e", "m", "b", "e", "r">> >>

\* new Date(s).toLocaleDateString("en-US", {year, month: "long", day}) for a
\* date-only string s: UTC midnight of s shown in the server's time zone, which
\* is the same day when the zone is at or ahead of UTC and the day before when
\* it is behind (tzBehind)
\* year: "numeric" prints the year of the era without the era, so that year 0
\* is 1 (BC) and year -1 is 2
LocaleDate(s, tzBehind) ==
  LET c == CivilFromDays(ParseDate(s).days - (IF tzBehind THEN 1 ELSE 0))
  IN  MonthNames[c.m] \o <<" ">> \o NumToStr(c.d) \o <<",", " ">> \o NumToStr(IF c.y <= 0 THEN 1 - c.y ELSE c.y)

\* the server's time zone TZ is behind UTC at the UTC midnight of day number
\* days: TZ gives the day numbers between which it is
ZoneBehind(TZ, days) == TZ.from <= days /\ days < TZ.to

\* buildFallbackSummary; each of the two dates is shown in the zone as it is at
\* that date
BuildFallbackSummary(repo, start, end, commits, TZ) ==
  LET sections == DaySections(commits, SortKeys(GroupKeys(commits)))
  IN  <<"\n", " ", " ", " ", " ", "<", "s", "e", "c", "t", "i", "o", "n", ">", "\n", " ", " ", " ", " ", " ", " ", "<", "p", ">", "A", "c", "t", "i", "v", "i", "t", "y", " ", "c", "o", "v", "e", "r", "i", "n", "g", " ">>
        \o EscapeHtml(LocaleDate(start, ZoneBehind(TZ, ParseDate(start).days))) \o <<" ", "t", "o", " ">>
        \o EscapeHtml(LocaleDate(end, ZoneBehind(TZ, ParseDate(end).days))) \o <<".", "<", "/", "p", ">", "\n", " ", " ", " ", " ", " ", " ">>
        \o (IF sections # <<>> THEN sections
                               ELSE <<"<", "p", ">", "N", "o", " ", "n", "o", "n", "-", "m", "e", "r", "g", "e", " ", "c", "o", "m", "m", "i", "t", "s", " ", "w", "e", "r", "e", " ", "a", "v", "a", "i", "l", "a", "b", "l", "e", ".", "<", "/", "p", ">">>)
        \o <<"\n", " ", " ", " ", " ", "<", "/", "s", "e", "c", "t", "i", "o", "n", ">", "\n", " ", " ">>

\* the model's trimmed text returned as it is when it starts with "<" or is
\* empty, wrapped otherwise
ComposeSummary_NoFallback(text, repo, start, end, commits, TZ) ==
  LET raw == Trim(text)
  IN  IF raw = <<>> \/ StartsWith(raw, <<"<">>) THEN raw
      ELSE <<"<", "s", "e", "c", "t", "i", "o", "n", ">", "<", "p", ">">> \o EscapeHtml(raw) \o <<"<", "/", "p", ">", "<", "/", "s", "e", "c", "t", "i", "o", "n", ">">>

\* what generateSummaryHtml returns for the model's text
ComposeSummary(text, repo, start, end, commits, TZ) ==
  LET raw == Trim(text)
  IN  IF raw = <<>> THEN BuildFallbackSummary(repo, start, end, commits, TZ)
      ELSE IF StartsWith(raw, <<"<">>) THEN raw
      ELSE <<"<", "s", "e", "c", "t", "i", "o", "n", ">", "<", "p", ">">> \o EscapeHtml(raw) \o <<"<", "/", "p", ">", "<", "/", "s", "e", "c", "t", "i", "o", "n", ">">>

MsgNoApiKey == <<"O", "P", "E", "N", "A", "I", "_", "A", "P", "I", "_", "K", "E", "Y", " ", "i", "s", " ", "n", "o", "t", " ", "c", "o", "n", "f", "i", "g", "u", "r", "e", "d", ".">>
MsgNoModel == <<"O", "p", "e", "n", "A", "I", " ", "m", "o", "d", "e", "l", " ", "i", "s", " ", "n", "o", "t", " ", "c", "o", "n", "f", "i", "g", "u", "r", "e", "d", ".">>
MsgModelFailed == <<"O", "p", "e", "n", "A", "I", " ", "t", "e", "x", "t", " ", "c", "o", "m", "p", "l", "e", "t", "i", "o", "n", " ", "f", "a", "i", "l", "e", "d", ".">>

\* the configuration checks with the model test left out
SummaryConfigError_KeyOnly(apiKey, model) ==
  IF Falsy(apiKey) THEN <<HttpError(500, MsgNoApiKey)>> ELSE <<>>

\* the configuration checks generateSummaryHtml makes before anything else:
\* <<the error it throws>>, or <<>> when both are present
SummaryConfigError(apiKey, model) ==
  IF Falsy(apiKey) THEN <<HttpError(500, MsgNoApiKey)>>
  ELSE IF Falsy(model) THEN <<HttpError(500, MsgNoModel)>>
  ELSE <<>>

\* the catch block without its first test: every caught error is wrapped
ModelFailure_WrapsAll(error) ==
  UpstreamError("openai",
                IF error.status # NoStatus THEN error.status ELSE 502,
                IF error.message # None THEN error.message ELSE MsgModelFailed)

\* the catch block of generateSummaryHtml: what it throws for a caught error
ModelFailure(error) ==
  IF error.kind = "HttpError" \/ error.kind = "AbortError" THEN error
  ELSE UpstreamError("openai",
                     IF error.status # NoStatus THEN error.status ELSE 502,
                     IF error.message # None THEN error.message ELSE MsgModelFailed)

(******************************* environment *******************************)

\* most pages a host serves for one window
MaxPages == 2
\* most records on a last (short) page
MaxShortPage == 2

\* process.env, read-only for the life of the process; TZ: the server's time
\* zone, as the day numbers [from, to) at whose UTC midnight it is behind UTC
EnvOf(repo, token, apiKey, model, realtime, TZ) ==
  [GITHUB_REPO |-> repo, GITHUB_TOKEN |-> token, OPENAI_API_KEY |-> apiKey,
   OPENAI_MODEL |-> model, OPENAI_REALTIME_MODEL |-> realtime, TZ |-> TZ]

\* a zone at or ahead of UTC all year, and a zone behind UTC until it changes
\* its clock on 2025-01-30
ZoneAhead == [from |-> 0, to |-> 0]

Repo == <<"a", "c", "m", "e", "/", "a", "p", "p">>
Token == <<"g", "h", "p", "_", "x">>
ApiKey == <<"s", "k", "-", "x">>

Envs ==
  { EnvOf(Repo, Token, ApiKey, <<"", "o", "p", "e", "n", "a", "i", "/", "g", "p", "t", "-", "5", " ">>, None, ZoneAhead),
    EnvOf(Repo, Token, ApiKey, None, <<"g", "p", "t", "-", "4", "o", "-", "r", "e", "a", "l", "t", "i", "m", "e">>,
          [from |-> -1000000, to |-> ParseDate(<<"2", "0", "2", "5", "-", "0", "1", "-", "3", "0">>).days]),
    EnvOf(Repo, Token, ApiKey, <<" ", " ">>, <<"g", "p", "t", "-", "4", "o", "-", "r", "e", "a", "l", "t", "i", "m", "e">>, ZoneAhead),
    EnvOf(Repo, Token, None, <<"g", "p", "t", "-", "5">>, None, ZoneAhead),
    EnvOf(Repo, Token, <<>>, <<"o", "p", "e", "n", "a", "i", "/">>, None, ZoneAhead),
    EnvOf(Repo, None, ApiKey, <<"g", "p", "t", "-", "5">>, None, ZoneAhead),
    EnvOf(<<>>, Token, ApiKey, <<"g", "p", "t", "-", "5">>, None, ZoneAhead),
    EnvOf(None, None, None, None, None, ZoneAhead) }

\* the query parameters a client may send (None: parameter absent)
DateInputs ==
  { None, <<>>,
    <<"0", "0", "0", "0", "-", "0", "1", "-", "0", "1">>, <<"2", "0", "2", "4", "-", "1", "2", "-", "3", "1">>, <<"2", "0", "2", "5", "-", "0", "1", "-", "0", "1">>, <<"2", "0", "2", "5", "-", "0", "1", "-", "3", "0">>, <<"2", "0", "2", "5", "-", "0", "1", "-", "3", "1">>, <<"2", "0", "2", "5", "-", "0", "2", "-", "3", "0">>,
    <<"2", "0", "2", "5", "-", "1", "3", "-", "0", "1">>, <<"2", "0", "2", "5", "-", "0", "1", "-", "3", "2">>, <<"2", "0", "2", "5", "-", "1", "-", "0", "1">>, <<"0", "1", "/", "3", "0", "/", "2", "0", "2", "5">> }

\* raw host records, by kind; sha is given by the record's position
AuthorDate == <<"2", "0", "2", "5", "-", "0", "1", "-", "0", "2", "T", "1", "0", ":", "0", "0", ":", "0", "0", "Z">>
CommitterDate == <<"2", "0", "2", "5", "-", "0", "1", "-", "0", "1", "T", "2", "3", ":", "3", "0", ":", "0", "0", "-", "0", "5", ":", "0", "0">>

RawKinds ==
  << [parents |-> 1, message |-> <<"F", "i", "x", " ", "<", "s", "c", "r", "i", "p", "t", ">", " ", "i", "n", " ", "\"", "l", "o", "g", "i", "n", "\"", " ", "&", " ", "'", "l", "o", "g", "o", "u", "t", "'", "\n", "\n", "H", "a", "n", "d", "l", "e", "s", " ", "e", "m", "p", "t", "y", " ", "t", "o", "k", "e", "n", "s">>,
      authorDate |-> AuthorDate, committerDate |-> CommitterDate,
      authorName |-> <<"A", "n", "n">>, committerName |-> <<"B", "o", "t">>, login |-> <<"a", "n", "n">>],
     [parents |-> 2, message |-> <<"A", "d", "d", " ", "<", "b", ">", "b", "o", "l", "d", "<", "/", "b", ">", " ", "&", " ", "\"", "q", "u", "o", "t", "e", "s", "\"">>,
      authorDate |-> AuthorDate, committerDate |-> None,
      authorName |-> <<"A", "n", "n">>, committerName |-> None, login |-> None],
     [parents |-> 1, message |-> <<"M", "e", "r", "g", "e", " ", "p", "u", "l", "l", " ", "r", "e", "q", "u", "e", "s", "t", " ", "#", "1", "2", " ", "f", "r", "o", "m", " ", "a", "c", "m", "e", "/", "f", "i", "x">>,
      authorDate |-> None, committerDate |-> CommitterDate,
      authorName |-> None, committerName |-> <<"B", "o", "t">>, login |-> None],
     [parents |-> -1, message |-> <<"\n", "M", "e", "r", "g", "e", " ", "n", "o", "t", "e", "s", " ", "<", "s", "c", "r", "i", "p", "t", ">">>,
      authorDate |-> None, committerDate |-> None,
      authorName |-> None, committerName |-> None, login |-> None],
     [parents |-> 0, message |-> <<"\\u2003", " ", "m", "E", "R", "G", "E", " ", "b", "r", "a", "n", "c", "h", " ", "'", "d", "e", "v", "'", "\f", "\n", "b", "o", "d", "y">>,
      authorDate |-> AuthorDate, committerDate |-> CommitterDate,
      authorName |-> <<"A", "n", "n">>, committerName |-> <<"B", "o", "t">>, login |-> <<"a", "n", "n">>],
     [parents |-> 1, message |-> <<"E", "m", "e", "r", "g", "e", " ", "&", " ", "s", "h", "i", "p", "\n", "m", "e", "r", "g", "e", " ", "l", "a", "t", "e", "r">>,
      authorDate |-> None, committerDate |-> CommitterDate,
      authorName |-> None, committerName |-> <<"B", "o", "t">>, login |-> <<"b", "o", "t">>],
     [parents |-> -1, message |-> None,
      authorDate |-> <<"2", "0", "2", "5", "-", "0", "1", "-", "0", "1", "T", "0", "8", ":", "0", "0", ":", "0", "0", "Z">>, committerDate |-> None,
      authorName |-> None, committerName |-> None, login |-> None] >>

NumKinds == Len(RawKinds)

\* the raw record of kind k at global position idx (its sha is the position)
RawCommit(k, idx) ==
  [sha |-> NumToStr(idx)] @@ RawKinds[k]

\* a page of n records whose first global position is base + 1; the kinds cycle
\* from offset k
PageOf(n, base, k) ==
  [i \in 1..n |-> RawCommit(((i + k - 1) % NumKinds) + 1, base + i)]

\* the pages the host can answer page `page` with: a full page while more may
\* follow, the empty page, every record kind alone, and longer short pages
HostPages(page) ==
  LET base == (page - 1) * PER_PAGE
  IN  (IF page < MaxPages THEN {PageOf(PER_PAGE, base, 0)} ELSE {})
      \cup {PageOf(n, base, k) : n \in 0..1, k \in 0..(NumKinds - 1)}
      \cup {PageOf(n, base, k) : n \in 2..MaxShortPage, k \in {0, 3}}

\* the status lines the host can answer with
HostStatuses == {200, 204, 304, 403, 404, 429, 500}

MsgSecondary == <<"Y", "o", "u", " ", "h", "a", "v", "e", " ", "e", "x", "c", "e", "e", "d", "e", "d", " ", "a", " ", "s", "e", "c", "o", "n", "d", "a", "r", "y", " ", "r", "a", "t", "e", " ", "l", "i", "m", "i", "t">>

\* body.message of an error body; None: the body does not parse or has no string message
HostMessages ==
  { None, <<>>, MsgSecondary, <<"\\u0100", "É", "I", "R", "E", ":", " ", "S", "E", "C", "O", "N", "D", "A", "R", "Y", " ", "R", "a", "t", "e", " ", "L", "i", "m", "i", "t", " ", "r", "e", "a", "c", "h", "e", "d">>,
    <<"A", "P", "I", " ", "r", "a", "t", "e", " ", "l", "i", "m", "i", "t", " ", "e", "x", "c", "e", "e", "d", "e", "d">>, <<"N", "o", "t", " ", "F", "o", "u", "n", "d">> }

\* the text a model call can resolve with
ModelTexts ==
  { <<>>, <<" ", " ", "\n", "\t", "", "\\u3000">>, <<"<", "s", "e", "c", "t", "i", "o", "n", ">", "<", "h", "2", ">", "U", "p", "d", "a", "t", "e", "s", "<", "/", "h", "2", ">", "<", "/", "s", "e", "c", "t", "i", "o", "n", ">">>,
    <<"﻿", "\n", " ", " ", "<", "p", ">", "o", "k", "<", "/", "p", ">", "\f">>, <<"S", "h", "i", "p", "p", "e", "d", " ", "A", " ", "&", " ", "B", " ", "<", "f", "a", "s", "t", ">">>, <<" ", "I", "t", "'", "s", " ", "\"", "d", "o", "n", "e", "\"", " ", "&", "a", "m", "p", ";", " ", "o", "u", "t", "\n">> }

\* the errors a model call can reject with (message None: not an Error instance)
ProviderErrors ==
  { ProviderError(NoStatus, <<"f", "e", "t", "c", "h", " ", "f", "a", "i", "l", "e", "d">>),
    ProviderError(401, <<"I", "n", "c", "o", "r", "r", "e", "c", "t", " ", "A", "P", "I", " ", "k", "e", "y", " ", "p", "r", "o", "v", "i", "d", "e", "d">>),
    ProviderError(302, <<"F", "o", "u", "n", "d">>),
    ProviderError(NoStatus, None) }

\* how long one awaited operation can take, in ms
Durations == {10000, 130000}

\* new Date().toISOString() when `ms` have passed since the timer was armed at
\* 2025-03-01T12:00:00.000Z
ClockAt(ms) ==
  <<"2", "0", "2", "5", "-", "0", "3", "-", "0", "1", "T", "1", "2", ":">> \o Pad2(ms \div 60000) \o <<":">> \o Pad2((ms % 60000) \div 1000)
    \o <<".">> \o Pad2((ms % 1000) \div 10) \o NumToStr(ms % 10) \o <<"Z">>

\* ms between the end of a request and the client's repetition of it
RerunGaps == {60000}

\* the dates a client that repeats its request asks for
RerunDates == { <<"2", "0", "2", "5", "-", "0", "1", "-", "0", "1">>, <<"2", "0", "2", "5", "-", "0", "1", "-", "3", "0">> }

(********************************* HomePage *********************************)

MAX_DATE_RANGE_DAYS == 30

\* a time value: the whole days since the epoch and the minutes into that
\* day; nan is the time value of an invalid Date
TimeOf(days, mins) ==
  [nan |-> FALSE, days |-> days + (mins \div 1440), mins |-> mins % 1440]

\* a < b on two time values that are numbers
Earlier(a, b) == a.days < b.days \/ (a.days = b.days /\ a.mins < b.mins)

\* The browser's time zone: the minutes east of UTC before the first change,
\* and the changes of the offset, ascending, each with the instant it happens
\* at and the offset from then on. Three zones: UTC; America/New_York with its
\* changes of 2024 to 2026; Pacific/Apia with the change that left out
\* 2011-12-30 and the one that followed.
BrowserUTC == [base |-> 0, changes |-> <<>>]

BrowserNewYork ==
  [base |-> -300,
   changes |-> << [at |-> TimeOf(DaysFromCivil(2024, 3, 10), 420), to |-> -240],
                  [at |-> TimeOf(DaysFromCivil(2024, 11, 3), 360), to |-> -300],
                  [at |-> TimeOf(DaysFromCivil(2025, 3, 9), 420), to |-> -240],
                  [at |-> TimeOf(DaysFromCivil(2025, 11, 2), 360), to |-> -300],
                  [at |-> TimeOf(DaysFromCivil(2026, 3, 8), 420), to |-> -240],
                  [at |-> TimeOf(DaysFromCivil(2026, 11, 1), 360), to |-> -300] >>]

BrowserApia ==
  [base |-> -600,
   changes |-> << [at |-> TimeOf(DaysFromCivil(2011, 12, 30), 600), to |-> 840],
                  [at |-> TimeOf(DaysFromCivil(2012, 3, 31), 840), to |-> 780] >>]

\* the offset the zone has at an instant
OffsetAt(zone, t) ==
  LET past == { i \in DOMAIN zone.changes : ~Earlier(t, zone.changes[i].at) }
  IN  IF past = {} THEN zone.base
      ELSE zone.changes[CHOOSE i \in past : \A j \in past : j <= i].to

\* the wall clock of the zone at an instant
LocalOf(zone, t) == TimeOf(t.days, t.mins + OffsetAt(zone, t))

\* UTC(t): the instant of a wall-clock time of the zone. A time the clock
\* shows twice is the earlier of its instants; a time a change of the offset
\* skips is read with the offset in force before that change.
LocalToUtc(zone, days, mins) ==
  LET OffsetBefore(i) == IF i = 1 THEN zone.base ELSE zone.changes[i - 1].to
      offsets == {zone.base} \cup { zone.changes[i].to : i \in DOMAIN zone.changes }
      fits    == { o \in offsets : OffsetAt(zone, TimeOf(days, mins - o)) = o }
      wall    == TimeOf(days, mins)
      skipped == CHOOSE i \in DOMAIN zone.changes :
                   /\ ~Earlier(wall, TimeOf(zone.changes[i].at.days,
                                            zone.changes[i].at.mins + OffsetBefore(i)))
                   /\ Earlier(wall, TimeOf(zone.changes[i].at.days,
                                           zone.changes[i].at.mins + zone.changes[i].to))
  IN  IF fits # {}
        THEN TimeOf(days, mins - (CHOOSE o \in fits : \A q \in fits : q <= o))
        ELSE TimeOf(days, mins - OffsetBefore(skipped))

\* formatDate: year-month-day of a Date in the browser's zone; the getters of
\* an invalid Date return NaN
FormatDate(date, zone) ==
  IF date.nan THEN <<"N", "a", "N", "-", "N", "a", "N", "-", "N", "a", "N">>
  ELSE LET c == CivilFromDays(LocalOf(zone, date).days)
       IN  (IF c.y < 0 THEN <<"-">> \o NumToStr(-c.y) ELSE NumToStr(c.y)) \o <<"-">> \o Pad2(c.m) \o <<"-">> \o Pad2(c.d)

\* new Date(`${s}T00:00:00`) for a value of a date input, which is a year of
\* four digits or more, a month and a day: with four digits the string is an
\* ISO date-time without offset, that is midnight on the browser's wall clock,
\* with month 1..12 and day 1..31 for every month as in ParseDate; with more
\* digits it is no ISO string, the fallback parser stops at the T that follows
\* the numbers, and the Date is invalid
ParseLocalDate(s, zone) ==
  IF DateOnlyRegexTest(s) /\ Num2(s, 6) \in 1..12 /\ Num2(s, 9) \in 1..31
    THEN LocalToUtc(zone, DaysFromCivil(Num2(s, 1) * 100 + Num2(s, 3), Num2(s, 6), Num2(s, 9)), 0)
    ELSE [nan |-> TRUE, days |-> 0, mins |-> 0]

\* initializeDateRange on a page opened at 2025-01-08T02:00Z: setDate moves
\* the wall clock seven days back
InitializeDateRange(zone) ==
  LET today == TimeOf(DaysFromCivil(2025, 1, 8), 120)
      wall  == LocalOf(zone, today)
      prior == LocalToUtc(zone, wall.days - 7, wall.mins)
  IN  [start |-> FormatDate(prior, zone), end |-> FormatDate(today, zone)]

\* what the two date inputs can hold: the empty string or a day
HomeDates ==
  { <<>>, <<"2", "0", "1", "1", "-", "1", "2", "-", "3", "0">>, <<"2", "0", "2", "4", "-", "1", "2", "-", "0", "9">>, <<"2", "0", "2", "5", "-", "0", "1", "-", "0", "1">>, <<"2", "0", "2", "5", "-", "0", "1", "-", "0", "8">>,
    <<"2", "0", "2", "5", "-", "0", "3", "-", "0", "1">>, <<"2", "0", "2", "5", "-", "0", "3", "-", "3", "1">>, <<"1", "2", "0", "2", "5", "-", "0", "1", "-", "0", "1">> }

\* the errors state with no key set
NoErrors == [start |-> None, end |-> None, range |-> None]

\* validate: the ValidationErrors of the two inputs; a later assignment to a
\* key replaces an earlier one, and a comparison with NaN is false; daySpan is
\* Math.floor((endDate.getTime() - startDate.getTime()) / 86400000) + 1
Validate(nextStart, nextEnd, zone) ==
  LET startDate == IF nextStart # <<>> THEN <<ParseLocalDate(nextStart, zone)>> ELSE <<>>
      endDate   == IF nextEnd # <<>> THEN <<ParseLocalDate(nextEnd, zone)>> ELSE <<>>
      both      == startDate # <<>> /\ endDate # <<>>
      numbers   == both /\ ~startDate[1].nan /\ ~endDate[1].nan
      daySpan   == (endDate[1].days - startDate[1].days)
                     + ((endDate[1].mins - startDate[1].mins) \div 1440) + 1
  IN  [start |-> IF startDate # <<>> /\ nextStart # FormatDate(startDate[1], zone)
                   THEN <<"I", "n", "v", "a", "l", "i", "d", " ", "s", "t", "a", "r", "t", " ", "d", "a", "t", "e">>
                 ELSE IF nextStart = <<>> THEN <<"S", "t", "a", "r", "t", " ", "d", "a", "t", "e", " ", "i", "s", " ", "r", "e", "q", "u", "i", "r", "e", "d">>
                 ELSE None,
       end   |-> IF numbers /\ Earlier(endDate[1], startDate[1])
                   THEN <<"E", "n", "d", " ", "d", "a", "t", "e", " ", "m", "u", "s", "t", " ", "b", "e", " ", "a", "f", "t", "e", "r", " ", "t", "h", "e", " ", "s", "t", "a", "r", "t", " ", "d", "a", "t", "e">>
                 ELSE IF endDate # <<>> /\ nextEnd # FormatDate(endDate[1], zone)
                   THEN <<"I", "n", "v", "a", "l", "i", "d", " ", "e", "n", "d", " ", "d", "a", "t", "e">>
                 ELSE IF nextEnd = <<>> THEN <<"E", "n", "d", " ", "d", "a", "t", "e", " ", "i", "s", " ", "r", "e", "q", "u", "i", "r", "e", "d">>
                 ELSE None,
       range |-> IF numbers /\ daySpan > MAX_DATE_RANGE_DAYS
                   THEN <<"D", "a", "t", "e", " ", "r", "a", "n", "g", "e", " ", "c", "a", "n", "n", "o", "t", " ", "e", "x", "c", "e", "e", "d", " ">> \o NumToStr(MAX_DATE_RANGE_DAYS)
                          \o <<" ", "d", "a", "y", "s", ".">>
                 ELSE None]

\* Object.keys(validation).length > 0
HasErrors(validation) ==
  validation.start # None \/ validation.end # None \/ validation.range # None
(********************************** state **********************************)

VARIABLES
  env,         \* process.env
  pc,          \* where the request is: idle, fetch, body, generate, done
  start,       \* searchParams.get("start")
  end,         \* searchParams.get("end")
  page,        \* fetchCommitsFromGitHub: page
  normalized,  \* fetchCommitsFromGitHub: normalized
  respStatus,  \* response.status of the page response whose body is being read
  aborted,     \* abortController.signal.aborted
  timer,       \* the setTimeout handle: unset, armed, cleared
  elapsed,     \* ms since the timer was armed
  response,    \* what GET returned
  rawPages,    \* history: the pages the host returned for this request
  hostCalls,   \* history: fetch calls issued for this request
  modelCalls,  \* history: generateText calls issued for this request
  hostMessage, \* history: body.message of the error body read last (None: no string)
  thrown,      \* history: <<the error GET's catch block received>>, or <<>>
  requested,   \* history: the page index of every fetch call of this request
  previous,    \* history: <<the earlier request the client now repeats>>, or <<>>
  modelText,   \* history: the text generateText resolved with (None: it has not)
  modelError,  \* history: <<the error generateText rejected with>>, or <<>>
  dates,       \* HomePage: the { start, end } state
  status,      \* HomePage: status
  errors,      \* HomePage: errors (None: key absent or undefined)
  fetchError,  \* HomePage: <<fetchError>>, or <<>> for null
  data,        \* HomePage: <<data>>, or <<>> for null
  inFlight,    \* HomePage: calls of handleSubmit that are at one of their awaits
  zone,        \* HomePage: the time zone of the browser
  reply,       \* HomePage: the Response fetch resolved with, while its body is read
  lastBody,    \* history: the JSON body of the ok response read last
  lastEvent    \* history: the handler of HomePage that ran last

vars ==
  <<env, pc, start, end, page, normalized, respStatus, aborted, timer, elapsed,
    response, rawPages, hostCalls, modelCalls, hostMessage, thrown, requested,
    previous, modelText, modelError, dates, status, errors, fetchError, data,
    inFlight, zone, reply, lastBody, lastEvent>>

\* the state of the route
route ==
  <<env, pc, start, end, page, normalized, respStatus, aborted, timer, elapsed,
    response, rawPages, hostCalls, modelCalls, hostMessage, thrown, requested,
    previous, modelText, modelError>>

\* the state of the HomePage component
home == <<dates, status, errors, fetchError, data, inFlight, zone, reply, lastBody, lastEvent>>

NoResponse == [status |-> 0, message |-> <<>>, body |-> <<>>]

InFlight == {"fetch", "body", "generate"}

\* the route before a request, in a process of environment e, and HomePage as
\* mounted in a browser of time zone z
InitIn(e, z) ==
  /\ env = e
  /\ pc = "idle"
  /\ start = None
  /\ end = None
  /\ page = 1
  /\ normalized = <<>>
  /\ respStatus = 0
  /\ aborted = FALSE
  /\ timer = "unset"
  /\ elapsed = 0
  /\ response = NoResponse
  /\ rawPages = <<>>
  /\ hostCalls = 0
  /\ modelCalls = 0
  /\ hostMessage = None
  /\ thrown = <<>>
  /\ requested = <<>>
  /\ previous = <<>>
  /\ modelText = None
  /\ modelError = <<>>
  /\ zone = z
  /\ dates = InitializeDateRange(z)
  /\ status = "idle"
  /\ errors = NoErrors
  /\ fetchError = <<>>
  /\ data = <<>>
  /\ inFlight = 0
  /\ reply = <<>>
  /\ lastBody = <<>>
  /\ lastEvent = "mount"

Init == \E e \in Envs : InitIn(e, BrowserUTC)

\* the page opened in any of the browsers
HomeInit ==
  \E z \in { BrowserUTC, BrowserNewYork, BrowserApia } :
    InitIn(EnvOf(Repo, Token, None, None, None, ZoneAhead), z)

(********************************** route **********************************)

MsgRequired == <<"B", "o", "t", "h", " ", "s", "t", "a", "r", "t", " ", "a", "n", "d", " ", "e", "n", "d", " ", "d", "a", "t", "e", "s", " ", "a", "r", "e", " ", "r", "e", "q", "u", "i", "r", "e", "d", ".">>
MsgFormat == <<"D", "a", "t", "e", "s", " ", "m", "u", "s", "t", " ", "b", "e", " ", "f", "o", "r", "m", "a", "t", "t", "e", "d", " ", "a", "s", " ", "Y", "Y", "Y", "Y", "-", "M", "M", "-", "D", "D", ".">>
MsgInvalid == <<"S", "t", "a", "r", "t", " ", "a", "n", "d", " ", "e", "n", "d", " ", "d", "a", "t", "e", "s", " ", "m", "u", "s", "t", " ", "b", "e", " ", "v", "a", "l", "i", "d", ".">>
MsgOrder == <<"S", "t", "a", "r", "t", " ", "d", "a", "t", "e", " ", "c", "a", "n", "n", "o", "t", " ", "b", "e", " ", "a", "f", "t", "e", "r", " ", "e", "n", "d", " ", "d", "a", "t", "e", ".">>
MsgSpan == <<"D", "a", "t", "e", " ", "s", "p", "a", "n", " ", "c", "a", "n", "n", "o", "t", " ", "e", "x", "c", "e", "e", "d", " ">> \o NumToStr(MAX_WINDOW_DAYS) \o <<" ", "d", "a", "y", "s", ".">>
MsgNoRepo == <<"G", "I", "T", "H", "U", "B", "_", "R", "E", "P", "O", " ", "i", "s", " ", "n", "o", "t", " ", "c", "o", "n", "f", "i", "g", "u", "r", "e", "d", ".">>
MsgNoToken == <<"G", "I", "T", "H", "U", "B", "_", "T", "O", "K", "E", "N", " ", "i", "s", " ", "n", "o", "t", " ", "c", "o", "n", "f", "i", "g", "u", "r", "e", "d", ".">>
MsgFetchFailed == <<"f", "e", "t", "c", "h", " ", "f", "a", "i", "l", "e", "d">>
MsgBadJson == <<"U", "n", "e", "x", "p", "e", "c", "t", "e", "d", " ", "e", "n", "d", " ", "o", "f", " ", "J", "S", "O", "N", " ", "i", "n", "p", "u", "t">>

\* the order test with the comparison turned around
StartAfterEnd_Reversed(startDate, endDate) == startDate.days < endDate.days

\* startDate > endDate
StartAfterEnd(startDate, endDate) == startDate.days > endDate.days

\* the span check with the limit itself refused
SpanTooLong_AtLimit(startDate, endDate) == DaySpan(startDate, endDate) >= MAX_WINDOW_DAYS

\* the span check of GET
SpanTooLong(startDate, endDate) == DaySpan(startDate, endDate) > MAX_WINDOW_DAYS

\* the checks of GET on the two parameters, in order: <<the error response>>,
\* or <<>> when the window passes
ValidateWindow(s, e) ==
  IF Falsy(s) \/ Falsy(e) THEN <<BuildErrorResponse(MsgRequired, 400)>>
  ELSE IF ~DateOnlyRegexTest(s) \/ ~DateOnlyRegexTest(e)
    THEN <<BuildErrorResponse(MsgFormat, 400)>>
  ELSE IF ParseDate(s).nan \/ ParseDate(e).nan
    THEN <<BuildErrorResponse(MsgInvalid, 400)>>
  ELSE IF StartAfterEnd(ParseDate(s), ParseDate(e))
    THEN <<BuildErrorResponse(MsgOrder, 400)>>
  ELSE IF SpanTooLong(ParseDate(s), ParseDate(e))
    THEN <<BuildErrorResponse(MsgSpan, 413)>>
  ELSE <<>>

\* the checks of GET on the host configuration
CheckHostConfig(e) ==
  IF Falsy(e.GITHUB_REPO) THEN <<BuildErrorResponse(MsgNoRepo, 500)>>
  ELSE IF Falsy(e.GITHUB_TOKEN) THEN <<BuildErrorResponse(MsgNoToken, 500)>>
  ELSE <<>>

\* everything GET checks before it arms the timer
EarlyResponse(e, s, t) ==
  IF ValidateWindow(s, t) # <<>> THEN ValidateWindow(s, t) ELSE CheckHostConfig(e)

\* normalizeModelName(process.env.OPENAI_MODEL ?? process.env.OPENAI_REALTIME_MODEL)
ModelOf(e) == NormalizeModelName(Coalesce(e.OPENAI_MODEL, e.OPENAI_REALTIME_MODEL))

\* the empty-range sentence of generateSummaryHtml, which names the repository
EmptyRangeSentence_WithRepo(s, e) ==
  <<"<", "s", "e", "c", "t", "i", "o", "n", ">", "<", "p", ">", "N", "o", " ", "c", "o", "m", "m", "i", "t", "s", " ", "f", "o", "u", "n", "d", " ", "b", "e", "t", "w", "e", "e", "n", " ">> \o s \o <<" ", "a", "n", "d", " ">> \o e
    \o <<" ", "f", "o", "r", " ">> \o env.GITHUB_REPO \o <<".", "<", "/", "p", ">", "<", "/", "s", "e", "c", "t", "i", "o", "n", ">">>

\* the summary GET starts from: the fixed empty-range sentence
EmptyRangeSentence(s, e) ==
  <<"<", "s", "e", "c", "t", "i", "o", "n", ">", "<", "p", ">", "N", "o", " ", "c", "o", "m", "m", "i", "t", "s", " ", "f", "o", "u", "n", "d", " ", "b", "e", "t", "w", "e", "e", "n", " ">> \o s \o <<" ", "a", "n", "d", " ">> \o e
    \o <<".", "<", "/", "p", ">", "<", "/", "s", "e", "c", "t", "i", "o", "n", ">">>

\* the DeployReportResponse GET returns
Report(e, s, t, commits, summaryHtml, now) ==
  [status  |-> 200,
   message |-> <<>>,
   body    |-> << [repo         |-> e.GITHUB_REPO,
                   start        |-> s,
                   end          |-> t,
                   commits      |-> commits,
                   summary_html |-> summaryHtml,
                   meta         |-> [commit_count |-> Len(commits),
                                     model        |-> Coalesce(ModelOf(e), <<"u", "n", "k", "n", "o", "w", "n">>),
                                     generated_at |-> now,
                                     source       |-> "github_live"]] >>]

\* ms between the moment the first request armed its timer and the moment the
\* request now handled armed its own
RunBase == IF previous = <<>> THEN 0 ELSE previous[1].resumeAt

\* what the host serves for page p: a repeated request is served the pages the
\* earlier request was served
ServedPages(p) ==
  IF previous = <<>> THEN HostPages(p)
  ELSE IF p <= Len(previous[1].rawPages) THEN {previous[1].rawPages[p]}
  ELSE {}

\* GET returns r and its finally block leaves the timer alone
Finish_TimerLeftArmed(r) ==
  /\ response' = r
  /\ pc' = "done"
  /\ timer' = timer

\* GET returns r; the finally block clears the timer
Finish(r) ==
  /\ response' = r
  /\ pc' = "done"
  /\ timer' = "cleared"

\* the try block of GET returns the report
Returns(r) ==
  /\ Finish(r)
  /\ UNCHANGED thrown

\* the catch block of GET without its last return: an error that is none of
\* the known kinds leaves GET without a response
Throws_KnownKindsOnly(error) ==
  /\ Finish(IF error.kind = "Error" /\ ~aborted THEN NoResponse
            ELSE CatchResponse(error, aborted))
  /\ thrown' = <<error>>

\* an awaited call rejects with error: the catch block of GET answers
Throws(error) ==
  /\ Finish(CatchResponse(error, aborted))
  /\ thrown' = <<error>>

\* GET from its first line to the first await
Handle(s, e) ==
  /\ start' = s
  /\ end' = e
  /\ page' = 1
  /\ normalized' = <<>>
  /\ respStatus' = 0
  /\ aborted' = FALSE
  /\ elapsed' = 0
  /\ rawPages' = <<>>
  /\ modelCalls' = 0
  /\ hostMessage' = None
  /\ thrown' = <<>>
  /\ modelText' = None
  /\ modelError' = <<>>
  /\ IF EarlyResponse(env, s, e) # <<>>
       THEN /\ response' = EarlyResponse(env, s, e)[1]
            /\ pc' = "done"
            /\ timer' = "unset"
            /\ hostCalls' = 0
            /\ requested' = <<>>
       ELSE /\ response' = NoResponse
            /\ pc' = "fetch"
            /\ timer' = "armed"
            /\ hostCalls' = 1
            /\ requested' = <<1>>
  /\ UNCHANGED env
  /\ UNCHANGED home

\* the client sends GET /deploy-report?start=s&end=e
Request(s, e) ==
  /\ pc = "idle"
  /\ Handle(s, e)
  /\ UNCHANGED previous

\* the client, answered with a report, sends the same request again `gap` ms
\* later
Rerun(gap) ==
  /\ pc = "done"
  /\ previous = <<>>
  /\ response.status = 200
  /\ previous' = << [start    |-> start,
                     end      |-> end,
                     rawPages |-> rawPages,
                     commits  |-> response.body[1].commits,
                     generated_at |-> response.body[1].meta.generated_at,
                     resumeAt |-> elapsed + gap] >>
  /\ Handle(start, end)

\* the abort signal handed to the model call left out
SignalPassed_ToFetchOnly(op) == op \in {"fetch", "body"}

\* the awaited operation was given abortController.signal: fetch(url, {signal}),
\* the body of its response, generateText({abortSignal: signal})
SignalPassed(op) == op \in {"fetch", "body", "generate"}

\* the awaited operation settles after dur ms, before (or in a tie with) the
\* deadline; once the signal is aborted only an operation that was not given
\* the signal can still settle
Settles(dur) ==
  IF aborted
    THEN /\ ~SignalPassed(pc)
         /\ UNCHANGED elapsed
    ELSE /\ elapsed + dur <= TOTAL_TIMEOUT_MS
         /\ elapsed' = elapsed + dur

\* GET after fetchCommitsFromGitHub returned commits, up to its next await
AfterRetrieval(commits, now) ==
  IF commits = <<>>
    THEN /\ Returns(Report(env, start, end, commits, EmptyRangeSentence(start, end), now))
         /\ UNCHANGED modelCalls
    ELSE LET cfg == SummaryConfigError(Coalesce(env.OPENAI_API_KEY, <<>>),
                                       Coalesce(ModelOf(env), <<>>))
         IN  IF cfg # <<>>
               THEN /\ Throws(cfg[1])
                    /\ UNCHANGED modelCalls
               ELSE /\ pc' = "generate"
                    /\ modelCalls' = modelCalls + 1
                    /\ UNCHANGED <<response, timer, thrown>>

\* a rejected fetch taken as the end of the pages: GET goes on with the
\* records collected so far
FetchFails_GoesOn(dur) ==
  /\ pc = "fetch"
  /\ Settles(dur)
  /\ AfterRetrieval(normalized, ClockAt(RunBase + elapsed'))
  /\ UNCHANGED <<env, start, end, page, normalized, respStatus, aborted, rawPages,
                 hostCalls>>
  /\ UNCHANGED <<hostMessage, requested, previous, modelText, modelError>>
  /\ UNCHANGED home

\* `await fetch(url, ...)` rejects: the host cannot be reached
FetchFails(dur) ==
  /\ pc = "fetch"
  /\ Settles(dur)
  /\ Throws(PlainError(MsgFetchFailed))
  /\ UNCHANGED <<env, start, end, page, normalized, respStatus, aborted, rawPages,
                 hostCalls, modelCalls>>
  /\ UNCHANGED <<hostMessage, requested, previous, modelText, modelError>>
  /\ UNCHANGED home

\* `await fetch(url, ...)` resolves with a response of status st. A response
\* of a null body status has no body to wait for: response.json() rejects in
\* the same turn, and the function throws before anything else can happen
FetchResponds(dur, st) ==
  /\ pc = "fetch"
  /\ Settles(dur)
  /\ respStatus' = st
  /\ IF st \in {101, 103, 204, 205, 304}
       THEN /\ hostMessage' = None
            /\ Throws(IF ResponseOk(st) THEN PlainError(MsgBadJson)
                      ELSE GitHubFailure(st, None))
       ELSE /\ pc' = "body"
            /\ UNCHANGED <<timer, response, hostMessage, thrown>>
  /\ UNCHANGED <<env, start, end, page, normalized, aborted, rawPages,
                 hostCalls, modelCalls>>
  /\ UNCHANGED <<requested, previous, modelText, modelError>>
  /\ UNCHANGED home

\* the body of a 403/429 or other non-ok response has been read: the throw
ErrorBodyRead(dur, bodyMessage) ==
  /\ pc = "body"
  /\ ~ResponseOk(respStatus)
  /\ Settles(dur)
  /\ hostMessage' = bodyMessage
  /\ Throws(GitHubFailure(respStatus, bodyMessage))
  /\ UNCHANGED <<env, start, end, page, normalized, respStatus, aborted, rawPages,
                 hostCalls, modelCalls, requested, previous, modelText, modelError>>
  /\ UNCHANGED home

\* `await response.json()` of an ok response rejects: the body is no JSON
PageBodyBad(dur) ==
  /\ pc = "body"
  /\ ResponseOk(respStatus)
  /\ Settles(dur)
  /\ Throws(PlainError(MsgBadJson))
  /\ UNCHANGED <<env, start, end, page, normalized, respStatus, aborted, rawPages,
                 hostCalls, modelCalls>>
  /\ UNCHANGED <<hostMessage, requested, previous, modelText, modelError>>
  /\ UNCHANGED home

\* `await response.json()` of an ok response resolves with the page: the for
\* loop, then either the next fetch or the return to GET
PageRead(dur, pageCommits) ==
  /\ pc = "body"
  /\ ResponseOk(respStatus)
  /\ Settles(dur)
  /\ rawPages' = Append(rawPages, pageCommits)
  /\ normalized' = PushAll(normalized, NormalizePage(pageCommits, ClockAt(RunBase + elapsed')))
  /\ IF LastPage(pageCommits)
       THEN /\ AfterRetrieval(normalized', ClockAt(RunBase + elapsed'))
            /\ UNCHANGED <<page, hostCalls, requested>>
       ELSE /\ page' = page + 1
            /\ hostCalls' = hostCalls + 1
            /\ requested' = Append(requested, page')
            /\ pc' = "fetch"
            /\ UNCHANGED <<response, timer, modelCalls, thrown>>
  /\ UNCHANGED <<env, start, end, respStatus, aborted, hostMessage, previous, modelText, modelError>>
  /\ UNCHANGED home

\* `await generateText(...)` resolves with text
ModelAnswers(dur, text) ==
  /\ pc = "generate"
  /\ Settles(dur)
  /\ Returns(Report(env, start, end, normalized,
                   ComposeSummary(text, env.GITHUB_REPO, start, end, normalized,
                                  env.TZ), ClockAt(RunBase + elapsed')))
  /\ modelText' = text
  /\ UNCHANGED <<env, start, end, page, normalized, respStatus, aborted, rawPages,
                 hostCalls, modelCalls>>
  /\ UNCHANGED <<hostMessage, requested, previous, modelError>>
  /\ UNCHANGED home

\* a rejected model call made again, twice at most, before the error is thrown
ModelFails_Retrying(dur, error) ==
  /\ pc = "generate"
  /\ Settles(dur)
  /\ modelError' = <<error>>
  /\ IF modelCalls < 3
       THEN /\ modelCalls' = modelCalls + 1
            /\ UNCHANGED <<pc, response, timer, thrown>>
       ELSE /\ Throws(ModelFailure(error))
            /\ UNCHANGED modelCalls
  /\ UNCHANGED <<env, start, end, page, normalized, respStatus, aborted, rawPages,
                 hostCalls>>
  /\ UNCHANGED <<hostMessage, requested, previous, modelText>>
  /\ UNCHANGED home

\* `await generateText(...)` rejects with a provider error
ModelFails(dur, error) ==
  /\ pc = "generate"
  /\ Settles(dur)
  /\ modelError' = <<error>>
  /\ Throws(ModelFailure(error))
  /\ UNCHANGED <<env, start, end, page, normalized, respStatus, aborted, rawPages,
                 hostCalls, modelCalls>>
  /\ UNCHANGED <<hostMessage, requested, previous, modelText>>
  /\ UNCHANGED home

\* the setTimeout callback: abortController.abort() at TOTAL_TIMEOUT_MS, while
\* an awaited operation is still pending
DeadlineFires ==
  /\ timer = "armed"
  /\ ~aborted
  /\ \E dur \in Durations : elapsed + dur >= TOTAL_TIMEOUT_MS
  /\ aborted' = TRUE
  /\ elapsed' = TOTAL_TIMEOUT_MS
  /\ UNCHANGED <<env, pc, start, end, page, normalized, respStatus, timer, response,
                 rawPages, hostCalls, modelCalls>>
  /\ UNCHANGED <<hostMessage, thrown, requested, previous, modelText, modelError>>
  /\ UNCHANGED home

\* what the pending operation throws up to GET once the signal is aborted:
\* fetch and an ok body read reject with the AbortError; the body read of an
\* error response is wrapped in .catch(() => ({})), so the failure is thrown
\* with the generic message; generateSummaryHtml rethrows the AbortError
AbortedThrow ==
  IF pc = "body" /\ ~ResponseOk(respStatus) THEN GitHubFailure(respStatus, None)
  ELSE IF pc = "generate" THEN ModelFailure(AbortError)
  ELSE AbortError

\* the pending operation rejects after the abort and GET's catch block runs
AbortRejects ==
  /\ aborted
  /\ pc \in InFlight
  /\ SignalPassed(pc)
  /\ Throws(AbortedThrow)
  /\ modelError' = IF pc = "generate" THEN <<AbortError>> ELSE modelError
  /\ UNCHANGED <<env, start, end, page, normalized, respStatus, aborted, elapsed,
                 rawPages, hostCalls, modelCalls>>
  /\ UNCHANGED <<hostMessage, requested, previous, modelText>>
  /\ UNCHANGED home

\* GET resumes after an await, or its timer fires
Proceeds ==
  \/ \E dur \in Durations : FetchFails(dur)
  \/ \E dur \in Durations, st \in HostStatuses : FetchResponds(dur, st)
  \/ \E dur \in Durations, m \in HostMessages : ErrorBodyRead(dur, m)
  \/ \E dur \in Durations : PageBodyBad(dur)
  \/ \E dur \in Durations, pg \in ServedPages(page) : PageRead(dur, pg)
  \/ \E dur \in Durations, text \in ModelTexts : ModelAnswers(dur, text)
  \/ \E dur \in Durations, error \in ProviderErrors : ModelFails(dur, error)
  \/ DeadlineFires
  \/ AbortRejects

Next ==
  \/ \E s \in DateInputs, e \in DateInputs : Request(s, e)
  \/ Proceeds

Spec == Init /\ [][Next]_vars

\* the same, with a client that repeats a request once
NextTwice ==
  \/ \E s \in RerunDates, e \in RerunDates : Request(s, e)
  \/ Proceeds
  \/ \E gap \in RerunGaps : Rerun(gap)

\* a deployment with every variable of the configuration set
InitTwice ==
  /\ Init
  /\ CheckHostConfig(env) = <<>>
  /\ SummaryConfigError(Coalesce(env.OPENAI_API_KEY, <<>>), Coalesce(ModelOf(env), <<>>)) = <<>>

SpecTwice == InitTwice /\ [][NextTwice]_vars

\* the timer callback runs when its time has come, and the continuation of a
\* promise rejected by the abort runs
LiveSpec == Spec /\ WF_vars(DeadlineFires) /\ WF_vars(AbortRejects)


(********************************* HomePage *********************************)

\* the JSON bodies an ok response can carry: <<>> is null, <<r>> a report of
\* GET /deploy-report
HomePayloads ==
  { <<>> } \cup
  { << Report(EnvOf(Repo, Token, None, None, None, ZoneAhead), w.start, w.end, <<>>,
              EmptyRangeSentence(w.start, w.end), ClockAt(0)).body[1] >> :
      w \in { InitializeDateRange(BrowserUTC), [start |-> <<"2", "0", "2", "5", "-", "0", "1", "-", "0", "1">>, end |-> <<"2", "0", "2", "5", "-", "0", "1", "-", "0", "1">>] } }

\* what fetch or response.json() rejects with in the browser
HomeRejections == { [isError |-> TRUE, message |-> <<"F", "a", "i", "l", "e", "d", " ", "t", "o", " ", "f", "e", "t", "c", "h">>],
                    [isError |-> FALSE, message |-> None] }

\* handleInputChange(key, value)
HandleInputChange(key, value) ==
  /\ dates' = [dates EXCEPT ![key] = value]
  /\ errors' = [errors EXCEPT ![key] = None, !.range = None]
  /\ lastEvent' = "change"
  /\ UNCHANGED <<status, fetchError, data, inFlight, zone, reply, lastBody>>
  /\ UNCHANGED route

\* handleSubmit up to its first await; the button that calls it is disabled
\* while status is loading
HandleSubmit ==
  /\ status # "loading"
  /\ IF HasErrors(Validate(dates.start, dates.end, zone))
       THEN /\ errors' = Validate(dates.start, dates.end, zone)
            /\ UNCHANGED <<status, fetchError, inFlight>>
       ELSE /\ status' = "loading"
            /\ errors' = NoErrors
            /\ fetchError' = <<>>
            /\ inFlight' = inFlight + 1
  /\ lastEvent' = "submit"
  /\ UNCHANGED <<dates, data, zone, reply, lastBody>>
  /\ UNCHANGED route

\* await fetch(...) resolves: handleSubmit goes on to read the body
FetchResolves(st) ==
  /\ inFlight > 0
  /\ reply = <<>>
  /\ reply' = << [status |-> st] >>
  /\ lastEvent' = "headers"
  /\ UNCHANGED <<dates, status, errors, fetchError, data, inFlight, zone, lastBody>>
  /\ UNCHANGED route

\* handleSubmit after the body of a response that is not ok, with the error
\* state left holding the earlier report
SubmitFails_DataKept(message) ==
  /\ inFlight > 0
  /\ reply # <<>>
  /\ ~ResponseOk(reply[1].status)
  /\ inFlight' = inFlight - 1
  /\ reply' = <<>>
  /\ fetchError' =
       << [message |-> IF Falsy(message)
                         THEN <<"R", "e", "q", "u", "e", "s", "t", " ", "f", "a", "i", "l", "e", "d", " ", "w", "i", "t", "h", " ", "s", "t", "a", "t", "u", "s", " ">> \o NumToStr(reply[1].status) \o <<".">>
                         ELSE message,
           status  |-> reply[1].status] >>
  /\ status' = "error"
  /\ data' = data
  /\ lastEvent' = "response"
  /\ UNCHANGED <<dates, errors, zone, lastBody>>
  /\ UNCHANGED route

\* handleSubmit after await response.json().catch(() => ({})) of a response
\* that is not ok
SubmitFails(message) ==
  /\ inFlight > 0
  /\ reply # <<>>
  /\ ~ResponseOk(reply[1].status)
  /\ inFlight' = inFlight - 1
  /\ reply' = <<>>
  /\ fetchError' =
       << [message |-> IF Falsy(message)
                         THEN <<"R", "e", "q", "u", "e", "s", "t", " ", "f", "a", "i", "l", "e", "d", " ", "w", "i", "t", "h", " ", "s", "t", "a", "t", "u", "s", " ">> \o NumToStr(reply[1].status) \o <<".">>
                         ELSE message,
           status  |-> reply[1].status] >>
  /\ status' = "error"
  /\ data' = <<>>
  /\ lastEvent' = "response"
  /\ UNCHANGED <<dates, errors, zone, lastBody>>
  /\ UNCHANGED route

\* handleSubmit after await response.json() of an ok response
SubmitSucceeds(payload) ==
  /\ inFlight > 0
  /\ reply # <<>>
  /\ ResponseOk(reply[1].status)
  /\ inFlight' = inFlight - 1
  /\ reply' = <<>>
  /\ data' = payload
  /\ lastBody' = <<payload>>
  /\ status' = "success"
  /\ lastEvent' = "response"
  /\ UNCHANGED <<dates, errors, fetchError, zone>>
  /\ UNCHANGED route

\* the catch block of handleSubmit: fetch rejected, or the body read of an ok
\* response did
SubmitRejects(rejection) ==
  /\ inFlight > 0
  /\ IF reply = <<>> THEN TRUE ELSE ResponseOk(reply[1].status)
  /\ inFlight' = inFlight - 1
  /\ reply' = <<>>
  /\ fetchError' =
       << [message |-> IF rejection.isError THEN rejection.message
                       ELSE <<"U", "n", "e", "x", "p", "e", "c", "t", "e", "d", " ", "e", "r", "r", "o", "r", " ", "w", "h", "i", "l", "e", " ", "f", "e", "t", "c", "h", "i", "n", "g", " ", "t", "h", "e", " ", "d", "e", "p", "l", "o", "y", " ", "r", "e", "p", "o", "r", "t", ".">>,
           status  |-> None] >>
  /\ status' = "error"
  /\ data' = <<>>
  /\ lastEvent' = "response"
  /\ UNCHANGED <<dates, errors, zone, lastBody>>
  /\ UNCHANGED route

\* the click handler of the "Try again" button, which is rendered while status
\* is error and fetchError is set
TryAgain ==
  /\ status = "error"
  /\ fetchError # <<>>
  /\ status' = "idle"
  /\ fetchError' = <<>>
  /\ lastEvent' = "retry"
  /\ UNCHANGED <<dates, errors, data, inFlight, zone, reply, lastBody>>
  /\ UNCHANGED route

\* the handlers of HomePage; the route is not part of this view. A message is
\* errorBody?.message, None when the body is no JSON, is null or has no message
HomeNext ==
  \/ \E key \in {"start", "end"}, value \in HomeDates : HandleInputChange(key, value)
  \/ HandleSubmit
  \/ \E st \in {200, 413, 500, 502} : FetchResolves(st)
  \/ \E message \in { None, <<>>, MsgSpan, MsgNoRepo } : SubmitFails(message)
  \/ \E payload \in HomePayloads : SubmitSucceeds(payload)
  \/ \E rejection \in HomeRejections : SubmitRejects(rejection)
  \/ TryAgain

HomeSpec == HomeInit /\ [][HomeNext]_vars
(********************** notions the properties speak of **********************)

IsLeapYear(y) == (y % 4 = 0 /\ y % 100 # 0) \/ y % 400 = 0

DaysInMonth(y, m) ==
  IF m = 2 THEN (IF IsLeapYear(y) THEN 29 ELSE 28)
  ELSE IF m \in {4, 6, 9, 11} THEN 30 ELSE 31

\* year, month and day of a string of the YYYY-MM-DD shape
CivilOf(s) == [y |-> Num2(s, 1) * 100 + Num2(s, 3), m |-> Num2(s, 6), d |-> Num2(s, 9)]

\* s has the YYYY-MM-DD shape and names a day of the calendar
IsCalendarDate(s) ==
  /\ DateOnlyRegexTest(s)
  /\ CivilOf(s).m \in 1..12
  /\ CivilOf(s).d \in 1..DaysInMonth(CivilOf(s).y, CivilOf(s).m)

\* calendar date a is later than calendar date b
CivilAfter(a, b) ==
  LET x == CivilOf(a)
      y == CivilOf(b)
  IN  \/ x.y > y.y
      \/ x.y = y.y /\ x.m > y.m
      \/ x.y = y.y /\ x.m = y.m /\ x.d > y.d

\* end - start + 1 in days, for calendar dates
CalendarSpan(s, e) ==
  DaysFromCivil(CivilOf(e).y, CivilOf(e).m, CivilOf(e).d)
    - DaysFromCivil(CivilOf(s).y, CivilOf(s).m, CivilOf(s).d) + 1

\* the request carries two calendar dates
WellFormedRequest == pc # "idle" /\ IsCalendarDate(start) /\ IsCalendarDate(end)

\* the request carries a window the data model allows
ValidWindowRequest ==
  /\ WellFormedRequest
  /\ ~CivilAfter(start, end)
  /\ CalendarSpan(start, end) <= 30

\* a raw host record is a merge: more than one parent, or the first line of
\* its message, trimmed, starts with "merge" whatever the case
MergeRecord(c) ==
  LET line == Trim(FirstSegment(IF c.message = None THEN <<>> ELSE c.message, "\n"))
  IN  \/ c.parents > 1
      \/ Len(line) >= 5 /\ ToLowerCase(SubSeq(line, 1, 5)) = <<"m", "e", "r", "g", "e">>

\* the raw records of the pages in ps that are no merges, counted
RECURSIVE NonMergeCount(_)
NonMergeCount(ps) ==
  IF ps = <<>> THEN 0
  ELSE Len(SelectSeq(Head(ps), LAMBDA c : ~MergeRecord(c))) + NonMergeCount(Tail(ps))

\* the raw records of the pages in ps, counted
RECURSIVE RawCount(_)
RawCount(ps) == IF ps = <<>> THEN 0 ELSE Len(Head(ps)) + RawCount(Tail(ps))

ShasOf(commits) == {commits[j].sha : j \in 1..Len(commits)}

Succeeded == pc = "done" /\ response.status = 200 /\ response.body # <<>>

\* fetchCommitsFromGitHub has returned: the last page read was a short one
RetrievalReturned == rawPages # <<>> /\ Len(rawPages[Len(rawPages)]) < PER_PAGE

ApiKeyMissing == Falsy(env.OPENAI_API_KEY)

\* neither variable gives a model identifier that is not blank
ModelIdMissing ==
  LET v == Coalesce(env.OPENAI_MODEL, env.OPENAI_REALTIME_MODEL)
  IN  v = None \/ Trim(v) = <<>>

HostConfigMissing == Falsy(env.GITHUB_REPO) \/ Falsy(env.GITHUB_TOKEN)

(******************************** properties ********************************)

\* C1: a request whose start date is later than its end date (both calendar
\* dates) is answered 400 and no commit-retrieval call is made for it
C1_StartAfterEndRejected ==
  (WellFormedRequest /\ CivilAfter(start, end))
    => (pc = "done" /\ response.status = 400 /\ response.body = <<>> /\ hostCalls = 0)

C1_Witness ==
  /\ WellFormedRequest /\ CivilAfter(start, end)
  /\ ~HostConfigMissing
  /\ response.status = 400
  /\ response.message = <<"S", "t", "a", "r", "t", " ", "d", "a", "t", "e", " ", "c", "a", "n", "n", "o", "t", " ", "b", "e", " ", "a", "f", "t", "e", "r", " ", "e", "n", "d", " ", "d", "a", "t", "e", ".">>

\* C2: a request whose inclusive span end - start + 1 exceeds 30 days is
\* answered 413 (not 400) before any call to the host or the model
C2_OversizedRejected ==
  (WellFormedRequest /\ ~CivilAfter(start, end) /\ CalendarSpan(start, end) > 30)
    => (pc = "done" /\ response.status = 413 /\ response.body = <<>>
        /\ hostCalls = 0 /\ modelCalls = 0)

C2_Witness ==
  /\ WellFormedRequest /\ CalendarSpan(start, end) = 31
  /\ ~HostConfigMissing
  /\ response.status = 413
  /\ response.message = <<"D", "a", "t", "e", " ", "s", "p", "a", "n", " ", "c", "a", "n", "n", "o", "t", " ", "e", "x", "c", "e", "e", "d", " ", "3", "0", " ", "d", "a", "y", "s", ".">>

\* C3: a request in which start or end is missing, has not the YYYY-MM-DD
\* shape or names no day of the calendar is answered 400, and neither the host
\* nor the model is contacted for it
C3_BadDatesRejected ==
  (pc # "idle" /\ (Falsy(start) \/ Falsy(end)
                     \/ ~IsCalendarDate(start) \/ ~IsCalendarDate(end)))
    => (pc = "done" /\ response.status = 400 /\ hostCalls = 0 /\ modelCalls = 0)

\* C4: a raw record, on any page, that has more than one parent or whose
\* summary line starts with "merge" (any case) is absent from the batch
\* fetchCommitsFromGitHub builds and from the commits of the report
C4_MergesAbsent ==
  \A kept \in {ShasOf(normalized)},
     shown \in {IF Succeeded THEN ShasOf(response.body[1].commits) ELSE {}} :
    \A p \in 1..Len(rawPages) : \A i \in 1..Len(rawPages[p]) :
      MergeRecord(rawPages[p][i])
        => /\ rawPages[p][i].sha \notin kept
           /\ Succeeded => rawPages[p][i].sha \notin shown

C4_Witness ==
  /\ Succeeded
  /\ Len(rawPages) = 2
  /\ \E i \in 1..Len(rawPages[2]) : rawPages[2][i].parents > 1
  /\ \E i \in 1..Len(rawPages[1]) :
       rawPages[1][i].parents <= 1 /\ MergeRecord(rawPages[1][i])
  /\ response.body[1].commits # <<>>

\* C5: in a report, meta.commit_count is the length of commits, which is the
\* number of non-merge records the host returned, and no commit is flagged a merge
C5_ReportCounts ==
  Succeeded =>
    LET report == response.body[1]
    IN  /\ report.meta.commit_count = Len(report.commits)
        /\ Len(report.commits) = NonMergeCount(rawPages)
        /\ \A j \in 1..Len(report.commits) : report.commits[j].is_merge = FALSE

C5_Witness ==
  /\ Succeeded
  /\ response.body[1].meta.commit_count > PER_PAGE \div 2
  /\ RawCount(rawPages) > response.body[1].meta.commit_count

\* C6: when retrieval returns an empty batch the model is never called and
\* summary_html is the fixed sentence that names start and end
C6_EmptyBatch ==
  (RetrievalReturned /\ normalized = <<>>)
    => /\ modelCalls = 0
       /\ Succeeded
       /\ response.body[1].commits = <<>>
       /\ response.body[1].summary_html =
            <<"<", "s", "e", "c", "t", "i", "o", "n", ">", "<", "p", ">", "N", "o", " ", "c", "o", "m", "m", "i", "t", "s", " ", "f", "o", "u", "n", "d", " ", "b", "e", "t", "w", "e", "e", "n", " ">> \o start \o <<" ", "a", "n", "d", " ">> \o end
              \o <<".", "<", "/", "p", ">", "<", "/", "s", "e", "c", "t", "i", "o", "n", ">">>

C6_Witness ==
  /\ Succeeded
  /\ RawCount(rawPages) > 0
  /\ response.body[1].commits = <<>>
  /\ ApiKeyMissing
  /\ modelCalls = 0

\* C7: one deadline of 120 s, armed once, covers every awaited call of both
\* stages; when it has fired the response is 504 with the timeout message,
\* whichever call was pending and however many pages had been read
C7_DeadlineGives504 ==
  /\ pc \in InFlight => timer = "armed"
  /\ aborted => elapsed = 120 * 1000
  /\ (aborted /\ pc = "done")
       => response = [status |-> 504,
                      message |-> <<"P", "r", "o", "c", "e", "s", "s", "i", "n", "g", " ", "e", "x", "c", "e", "e", "d", "e", "d", " ", "t", "h", "e", " ", "1", "2", "0", "s", " ", "t", "i", "m", "e", "o", "u", "t", ".">>,
                      body |-> <<>>]

C7_Witness ==
  /\ pc = "done" /\ aborted
  /\ response.status = 504
  /\ rawPages # <<>>
  /\ thrown # <<>> /\ thrown[1].kind = "UpstreamError"

\* C8: a 403 or 429 from the host whose message contains "secondary rate
\* limit" (any case) is answered 429 with the host's message verbatim, unless
\* the deadline has fired
C8_SecondaryRateLimit ==
  (pc = "done" /\ ~aborted /\ respStatus \in {403, 429} /\ hostMessage # None
     /\ Includes(ToLowerCase(hostMessage), <<"s", "e", "c", "o", "n", "d", "a", "r", "y", " ", "r", "a", "t", "e", " ", "l", "i", "m", "i", "t">>))
    => (response.status = 429 /\ response.message = hostMessage /\ response.body = <<>>)

C8_Witness ==
  /\ pc = "done" /\ ~aborted
  /\ respStatus = 403
  /\ Len(rawPages) = 1
  /\ hostMessage = <<"\\u0100", "É", "I", "R", "E", ":", " ", "S", "E", "C", "O", "N", "D", "A", "R", "Y", " ", "R", "a", "t", "e", " ", "L", "i", "m", "i", "t", " ", "r", "e", "a", "c", "h", "e", "d">>
  /\ response.status = 429

\* C9: an upstream failure (host or model) that is neither the secondary rate
\* limit nor the deadline is answered 502, whatever status the upstream reported
C9_UpstreamFailuresAre502 ==
  (pc = "done" /\ ~aborted /\ thrown # <<>>
     /\ thrown[1].kind \in {"UpstreamError", "Error"})
    => response.status = 502

\* C10 as claimed: with a valid window and any required configuration missing
\* the response is 500, and a missing model credential or identifier means the
\* model is never contacted
C10_MissingConfigIs500 ==
  /\ (pc = "done" /\ ValidWindowRequest
        /\ (HostConfigMissing \/ ApiKeyMissing \/ ModelIdMissing))
       => response.status = 500
  /\ (ApiKeyMissing \/ ModelIdMissing) => modelCalls = 0

\* C10 as amended: with a valid window, a missing repository or host credential
\* is answered 500 before any call; a missing model credential or identifier
\* means the model is never contacted, and is answered 500 once retrieval has
\* returned a batch that is not empty
C10_MissingConfig ==
  /\ (ValidWindowRequest /\ HostConfigMissing)
       => (pc = "done" /\ response.status = 500 /\ hostCalls = 0 /\ modelCalls = 0)
  /\ (ApiKeyMissing \/ ModelIdMissing) => modelCalls = 0
  /\ (ValidWindowRequest /\ ~HostConfigMissing /\ (ApiKeyMissing \/ ModelIdMissing)
        /\ RetrievalReturned /\ normalized # <<>>)
       => (pc = "done" /\ response.status = 500 /\ response.body = <<>>)

C10_Witness ==
  /\ pc = "done" /\ ValidWindowRequest
  /\ ~ApiKeyMissing /\ ModelIdMissing
  /\ Len(rawPages) = 2 /\ normalized # <<>>
  /\ response.status = 500
  /\ response.message = <<"O", "p", "e", "n", "A", "I", " ", "m", "o", "d", "e", "l", " ", "i", "s", " ", "n", "o", "t", " ", "c", "o", "n", "f", "i", "g", "u", "r", "e", "d", ".">>

\* the client has repeated a request, and both runs were served the same pages
\* and answered with a report
RanTwice ==
  /\ previous # <<>>
  /\ Succeeded
  /\ rawPages = previous[1].rawPages

\* the shas of the raw records to which the host gave neither an author date
\* nor a committer date
UndatedShas(ps) ==
  UNION { { ps[i][j].sha : j \in { k \in 1..Len(ps[i]) :
                                    /\ ps[i][k].authorDate = None
                                    /\ ps[i][k].committerDate = None } }
          : i \in 1..Len(ps) }

\* C11 as stated: two runs over one window and the same host data give the same
\* commits arrays, dates included
C11_SameCommitsTwice ==
  RanTwice => response.body[1].commits = previous[1].commits

\* C11: two runs over one window and the same host data give commits arrays
\* of the same length and order that agree in every field, except the date of
\* a record to which the host gave neither an author nor a committer date
C11_SameCommitsButClockDates ==
  RanTwice =>
    \A now \in {response.body[1].commits}, was \in {previous[1].commits},
       undated \in {UndatedShas(rawPages)} :
      /\ Len(now) = Len(was)
      /\ \A i \in 1..Len(now) :
            IF now[i].sha \in undated
              THEN [now[i] EXCEPT !.date = was[i].date] = was[i]
              ELSE now[i] = was[i]

C11_Witness ==
  /\ RanTwice
  /\ \E i, j \in 1..Len(response.body[1].commits) :
        /\ response.body[1].commits[i].sha \in UndatedShas(rawPages)
        /\ response.body[1].commits[i].date # previous[1].commits[i].date
        /\ response.body[1].commits[j].sha \notin UndatedShas(rawPages)
  /\ response.body[1].meta.generated_at # previous[1].generated_at

\* where pat occurs in s, in ascending order
Occurrences(s, pat) ==
  SelectSeq([i \in 1..Len(s) |-> i],
            LAMBDA i : /\ s[i] = pat[1]
                       /\ i + Len(pat) - 1 <= Len(s)
                       /\ SubSeq(s, i, i + Len(pat) - 1) = pat)

Entities ==
  { <<<<"&", "a", "m", "p", ";">>, "&">>, <<<<"&", "l", "t", ";">>, "<">>, <<<<"&", "g", "t", ";">>, ">">>,
    <<<<"&", "q", "u", "o", "t", ";">>, "\"">>, <<<<"&", "#", "3", "9", ";">>, "'">> }

\* s holds none of < > " ' and no & that does not open an entity
NoRawSpecials(s) ==
  \A i \in 1..Len(s) :
    /\ s[i] \notin {"<", ">", "\"", "'"}
    /\ s[i] = "&" =>
         \E e \in Entities :
           /\ i + Len(e[1]) - 1 <= Len(s)
           /\ SubSeq(s, i, i + Len(e[1]) - 1) = e[1]

\* the text a browser shows for escaped text s
RECURSIVE Unescape(_)
Unescape(s) ==
  IF s = <<>> THEN <<>>
  ELSE IF \E e \in Entities : Len(e[1]) <= Len(s) /\ SubSeq(s, 1, Len(e[1])) = e[1]
    THEN LET e == CHOOSE x \in Entities :
                    Len(x[1]) <= Len(s) /\ SubSeq(s, 1, Len(x[1])) = x[1]
         IN  <<e[2]>> \o Unescape(SubSeq(s, Len(e[1]) + 1, Len(s)))
  ELSE <<Head(s)>> \o Unescape(Tail(s))

\* the line a commit is listed by: its summary line, else the first line of its
\* message, else its sha
ListedLine(c) ==
  IF c.summary_line # <<>> THEN c.summary_line
  ELSE IF c.message # <<>> /\ Head(c.message) # "\n"
    THEN FirstSegment(c.message, "\n")
  ELSE c.sha

\* the UTC calendar day of a commit's date
UtcDay(c) == IsoDay(c.date)

DayNumber(day) == DaysFromCivil(CivilOf(day).y, CivilOf(day).m, CivilOf(day).d)

\* the model was called and resolved with nothing but white space
ModelAnsweredBlank ==
  /\ Succeeded
  /\ modelCalls = 1
  /\ modelText # None
  /\ \A i \in 1..Len(modelText) : IsWhite(modelText[i])

\* html lists the commits by UTC day: one <h3> per day, ascending, each
\* followed by the items of that day's commits in batch order, every item the
\* escaped listed line of its commit
ListsByDay(html, commits) ==
  \A heads \in {Occurrences(html, <<"<", "h", "3", ">">>)},
     opens \in {Occurrences(html, <<"<", "l", "i", ">", "<", "s", "t", "r", "o", "n", "g", ">">>)},
     closes \in {Occurrences(html, <<"<", "/", "s", "t", "r", "o", "n", "g", ">", "<", "/", "l", "i", ">">>)},
     utc \in {[i \in 1..Len(commits) |-> UtcDay(commits[i])]} :
    /\ Len(opens) = Len(commits)
    /\ Len(closes) = Len(commits)
    /\ \A day \in {[k \in 1..Len(heads) |-> SubSeq(html, heads[k] + 4, heads[k] + 13)]},
          upTo \in {[k \in 1..Len(heads) |->
                      IF k < Len(heads) THEN heads[k + 1] ELSE Len(html) + 1]},
          item \in {[n \in 1..Len(opens) |-> SubSeq(html, opens[n] + 12, closes[n] - 1)]} :
         /\ \A n \in 1..Len(opens) : opens[n] < closes[n] /\ NoRawSpecials(item[n])
         /\ \A k \in 1..(Len(heads) - 1) : DayNumber(day[k]) < DayNumber(day[k + 1])
         /\ {day[k] : k \in 1..Len(heads)} = {utc[i] : i \in 1..Len(commits)}
         /\ \A k \in 1..Len(heads) :
               \A inDay \in {SelectSeq([n \in 1..Len(opens) |-> n],
                                       LAMBDA n : opens[n] > heads[k] /\ opens[n] < upTo[k])},
                  ofDay \in {SelectSeq([i \in 1..Len(commits) |-> i],
                                       LAMBDA i : utc[i] = day[k])} :
                 /\ Len(inDay) = Len(ofDay)
                 /\ \A n \in 1..Len(inDay) :
                       Unescape(item[inDay[n]]) = ListedLine(commits[ofDay[n]])

\* C12: when the model answers a non-empty batch with an empty or
\* whitespace-only text, summary_html lists all commits grouped by UTC calendar
\* day, one section per day with the days ascending, and every commit's summary
\* line HTML-escaped
C12_BlankAnswerGivesFallback ==
  ModelAnsweredBlank =>
    ListsByDay(response.body[1].summary_html, response.body[1].commits)

C12_Witness ==
  /\ ModelAnsweredBlank
  /\ modelText # <<>>
  /\ Len(response.body[1].commits) > 2
  /\ \E i, j \in 1..Len(response.body[1].commits) :
        /\ i < j
        /\ DayNumber(UtcDay(response.body[1].commits[j]))
             < DayNumber(UtcDay(response.body[1].commits[i]))
  /\ \E i \in 1..Len(response.body[1].commits) :
        /\ SubSeq(response.body[1].commits[i].date, 1, 10)
             # UtcDay(response.body[1].commits[i])
        /\ ~NoRawSpecials(response.body[1].commits[i].summary_line)

\* GET has returned a report
ReportOutcome ==
  /\ response.status = 200
  /\ response.body # <<>>
  /\ response.message = <<>>
  /\ thrown = <<>>

\* GET has returned {status, message}
ErrorOutcome ==
  /\ response.status \in 400..599
  /\ response.body = <<>>
  /\ response.message \in Seq({response.message[i] : i \in 1..Len(response.message)})

\* nothing is answered while GET runs; when it has ended the answer is a
\* report or an error, never both and never neither; an error that reached the
\* catch block was answered with an error
OneOutcome ==
  /\ pc \in InFlight => response = NoResponse /\ thrown = <<>>
  /\ pc = "done" => (ReportOutcome \/ ErrorOutcome) /\ ~(ReportOutcome /\ ErrorOutcome)
  /\ thrown # <<>> => pc = "done" /\ ErrorOutcome

\* C13: every request ends, and ends with exactly one outcome, a report or a
\* {status, message} error; every error the commit source or the composer
\* raises is answered by GET with one status and message
C13_EveryRequestEndsWithOneOutcome ==
  /\ []OneOutcome
  /\ (pc \in InFlight) ~> (pc = "done")

C13_Witness ==
  /\ pc = "done"
  /\ thrown # <<>>
  /\ thrown[1].kind = "Error"
  /\ ~aborted
  /\ response.status = 502
  /\ response.message = <<"U", "n", "e", "x", "p", "e", "c", "t", "e", "d", " ", "e", "n", "d", " ", "o", "f", " ", "J", "S", "O", "N", " ", "i", "n", "p", "u", "t">>
  /\ normalized # <<>>

\* text without its leading and trailing white space
Stripped(text) ==
  LET inked == {i \in 1..Len(text) : ~IsWhite(text[i])}
  IN  IF inked = {} THEN <<>>
      ELSE SubSeq(text, CHOOSE i \in inked : \A j \in inked : i <= j,
                        CHOOSE i \in inked : \A j \in inked : j <= i)

\* html is <section><p>...</p></section> around the escaped text raw
WrapsEscaped(html, raw) ==
  /\ Len(html) >= 26
  /\ SubSeq(html, 1, 12) = <<"<", "s", "e", "c", "t", "i", "o", "n", ">", "<", "p", ">">>
  /\ SubSeq(html, Len(html) - 13, Len(html)) = <<"<", "/", "p", ">", "<", "/", "s", "e", "c", "t", "i", "o", "n", ">">>
  /\ NoRawSpecials(SubSeq(html, 13, Len(html) - 14))
  /\ Unescape(SubSeq(html, 13, Len(html) - 14)) = raw

\* C14: the summary_html of a report is never empty: for an empty batch it is
\* the empty-range sentence, otherwise the model's trimmed text when that starts
\* with "<", the escaped paragraph around it when it does not, and the listing by
\* day when the model's text is blank
C14_SummaryNeverEmpty ==
  Succeeded =>
    \A html \in {response.body[1].summary_html}, commits \in {response.body[1].commits} :
      /\ html # <<>>
      /\ IF commits = <<>>
           THEN /\ modelCalls = 0
                /\ html = <<"<", "s", "e", "c", "t", "i", "o", "n", ">", "<", "p", ">", "N", "o", " ", "c", "o", "m", "m", "i", "t", "s", " ", "f", "o", "u", "n", "d", " ", "b", "e", "t", "w", "e", "e", "n", " ">> \o start
                             \o <<" ", "a", "n", "d", " ">> \o end \o <<".", "<", "/", "p", ">", "<", "/", "s", "e", "c", "t", "i", "o", "n", ">">>
           ELSE /\ modelCalls = 1
                /\ modelText # None
                /\ \A raw \in {Stripped(modelText)} :
                      IF raw = <<>> THEN ListsByDay(html, commits)
                      ELSE IF raw[1] = "<" THEN html = raw
                      ELSE WrapsEscaped(html, raw)

C14_Witness ==
  /\ Succeeded
  /\ modelText = <<"S", "h", "i", "p", "p", "e", "d", " ", "A", " ", "&", " ", "B", " ", "<", "f", "a", "s", "t", ">">>
  /\ response.body[1].summary_html
       = <<"<", "s", "e", "c", "t", "i", "o", "n", ">", "<", "p", ">", "S", "h", "i", "p", "p", "e", "d", " ", "A", " ", "&", "a", "m", "p", ";", " ", "B", " ", "&", "l", "t", ";", "f", "a", "s", "t", "&", "g", "t", ";", "<", "/", "p", ">", "<", "/", "s", "e", "c", "t", "i", "o", "n", ">">>

\* C15: the pages are requested one at a time in the order 1, 2, 3, ..., page
\* n+1 only when page n has been processed; a page of 100 raw records (merges
\* counted) is followed by the request of the next page, and the first page
\* with fewer than 100 raw records is followed by no request
C15_SequentialPaging ==
  /\ hostCalls = Len(requested)
  /\ \A i \in 1..Len(requested) : requested[i] = i
  /\ Len(rawPages) <= Len(requested)
  /\ Len(requested) <= Len(rawPages) + 1
  /\ pc \in {"fetch", "body"} => Len(requested) = Len(rawPages) + 1
  /\ \A i \in 1..Len(rawPages) :
        IF Len(rawPages[i]) = PER_PAGE THEN Len(requested) > i
        ELSE /\ Len(rawPages[i]) < PER_PAGE
             /\ i = Len(rawPages)
             /\ Len(requested) = i
             /\ pc \in {"generate", "done"}

C15_Witness ==
  /\ Succeeded
  /\ requested = <<1, 2>>
  /\ Len(rawPages[1]) = PER_PAGE
  /\ Len(SelectSeq(rawPages[1], LAMBDA c : ~MergeRecord(c))) < PER_PAGE
  /\ Len(rawPages[2]) = 1

\* the raw records of the pages in ps that are no merges, in page order and in
\* the host's order within each page
RECURSIVE NonMergeRaw(_)
NonMergeRaw(ps) ==
  IF ps = <<>> THEN <<>>
  ELSE SelectSeq(Head(ps), LAMBDA c : ~MergeRecord(c)) \o NonMergeRaw(Tail(ps))

\* record c is what the pipeline makes of raw record r
MadeFrom(c, r) ==
  /\ c.sha = r.sha
  /\ c.message = (IF r.message = None THEN <<>> ELSE r.message)
  /\ c.author.login = r.login
  /\ c.is_merge = FALSE

\* C16: the batch is the concatenation, in page order and in the host's order
\* within each page, of the non-merge raw records: none dropped, none twice,
\* none moved; the commits of the report are that batch
C16_BatchIsConcatenation ==
  \A raw \in {NonMergeRaw(rawPages)} :
    /\ Len(normalized) = Len(raw)
    /\ \A i \in 1..Len(raw) : MadeFrom(normalized[i], raw[i])
    /\ Cardinality(ShasOf(normalized)) = Len(normalized)
    /\ Succeeded => response.body[1].commits = normalized

C16_Witness ==
  /\ Succeeded
  /\ Len(rawPages) = 2
  /\ Len(response.body[1].commits) > 2
  /\ Len(response.body[1].commits) < RawCount(rawPages)
  /\ NonMergeRaw(<<rawPages[2]>>) # <<>>
  /\ response.body[1].commits[1].sha = <<"1">>

\* a page fetch of this request has failed: the host answered with an error
\* status, or the call or the reading of its body was rejected
PageFetchFailed ==
  \/ pc = "body" /\ ~ResponseOk(respStatus)
  \/ thrown # <<>> /\ modelCalls = 0 /\ Len(requested) = Len(rawPages) + 1

\* no page index was requested twice and the model was called once at most
CalledOnceEach ==
  /\ modelCalls <= 1
  /\ \A i, j \in 1..Len(requested) : i # j => requested[i] # requested[j]
  /\ thrown # <<>> => pc = "done"

\* C17: nothing is retried within a request: no page index is requested more
\* than once, generateText is called at most once, and once a page fetch or the
\* model call has failed no further page is requested and no model call made
C17_NoRetries ==
  /\ []CalledOnceEach
  /\ [][(PageFetchFailed \/ thrown # <<>>)
          => (requested' = requested /\ hostCalls' = hostCalls
              /\ modelCalls' = modelCalls)]_vars

C17_Witness ==
  /\ pc = "done"
  /\ thrown # <<>>
  /\ thrown[1].kind = "UpstreamError"
  /\ thrown[1].upstream = "openai"
  /\ modelCalls = 1
  /\ requested = <<1, 2>>

\* a page request is out: the call, or the reading of its response, is pending
PageRequestPending == Len(requested) > Len(rawPages) /\ pc \in {"fetch", "body"}

\* C18: the composer is called only after fetchCommitsFromGitHub has returned:
\* while a page request is pending the model has not been called, while the
\* model call is pending no page request is, and a request whose retrieval
\* failed never calls the model
C18_ComposerAfterRetrieval ==
  /\ modelCalls > 0 =>
        /\ RetrievalReturned
        /\ Len(requested) = Len(rawPages)
        /\ normalized # <<>>
        /\ pc \in {"generate", "done"}
  /\ pc \in {"fetch", "body"} => modelCalls = 0
  /\ pc = "generate" => ~PageRequestPending /\ modelCalls = 1
  /\ (pc = "done" /\ ~RetrievalReturned) => modelCalls = 0

C18_Witness ==
  /\ pc = "done"
  /\ thrown # <<>>
  /\ ~aborted
  /\ requested = <<1, 2>>
  /\ Len(rawPages) = 1
  /\ normalized # <<>>
  /\ modelCalls = 0
  /\ response.status = 429

\* C19: once the deadline has fired no page is requested and no model call
\* made, the page or model response that was pending is not taken into the
\* batch or a report, and the request is never answered with a report
C19_AbandonedAfterDeadline ==
  /\ [](aborted => (response.status # 200 /\ response.body = <<>> /\ modelText = None))
  /\ [][aborted => /\ requested' = requested
                    /\ hostCalls' = hostCalls
                    /\ modelCalls' = modelCalls
                    /\ rawPages' = rawPages
                    /\ normalized' = normalized
                    /\ response'.status \in {0, 504}]_vars

C19_Witness ==
  /\ aborted
  /\ pc = "done"
  /\ modelCalls = 1
  /\ thrown # <<>>
  /\ thrown[1].kind = "AbortError"
  /\ response.status = 504
  /\ requested = <<1, 2>>

\* the error body read last carries a string message that holds the phrase
\* "secondary rate limit" in any case
SecondaryLimitSignalled ==
  /\ hostMessage # None
  /\ Occurrences(ToLowerCase(hostMessage), <<"s", "e", "c", "o", "n", "d", "a", "r", "y", " ", "r", "a", "t", "e", " ", "l", "i", "m", "i", "t">>) # <<>>

\* C20: a 403 or 429 from the host whose message does not hold "secondary rate
\* limit" makes fetchCommitsFromGitHub throw an UpstreamError of the host with
\* the host's status and the host's message, or the fixed generic message when
\* the body gives no string message; it never throws the 429 HttpError
C20_GenericRateLimitFailure ==
  (pc = "done" /\ ~aborted /\ respStatus \in {403, 429} /\ ~SecondaryLimitSignalled)
    => /\ thrown # <<>>
       /\ thrown[1].kind = "UpstreamError"
       /\ thrown[1].upstream = "github"
       /\ thrown[1].status = respStatus
       /\ thrown[1].message
            = (IF hostMessage # None THEN hostMessage
               ELSE <<"G", "i", "t", "H", "u", "b", " ", "A", "P", "I", " ", "r", "a", "t", "e", " ", "l", "i", "m", "i", "t", " ", "o", "r", " ", "p", "e", "r", "m", "i", "s", "s", "i", "o", "n", " ", "e", "r", "r", "o", "r", ".">>)

C20_Witness ==
  /\ pc = "done" /\ ~aborted
  /\ respStatus = 429
  /\ hostMessage = <<"A", "P", "I", " ", "r", "a", "t", "e", " ", "l", "i", "m", "i", "t", " ", "e", "x", "c", "e", "e", "d", "e", "d">>
  /\ thrown # <<>>
  /\ thrown[1] = UpstreamError("github", 429, <<"A", "P", "I", " ", "r", "a", "t", "e", " ", "l", "i", "m", "i", "t", " ", "e", "x", "c", "e", "e", "d", "e", "d">>)
  /\ Len(rawPages) = 1

\* C21: an error the model call rejects with, unless it is the abort error, is
\* thrown by generateSummaryHtml as an UpstreamError of the model provider with
\* the error's numeric status, or 502 when it has none, and the error's message
\* (a fixed message when the rejection is no Error); the abort error is thrown
\* on as it is
C21_ModelErrorsWrapped ==
  modelError # <<>> =>
    /\ thrown # <<>>
    /\ IF modelError[1].kind = "AbortError"
         THEN thrown[1] = modelError[1]
         ELSE /\ thrown[1].kind = "UpstreamError"
              /\ thrown[1].upstream = "openai"
              /\ thrown[1].status
                   = (IF modelError[1].status = NoStatus THEN 502 ELSE modelError[1].status)
              /\ thrown[1].message
                   = (IF modelError[1].message = None
                        THEN <<"O", "p", "e", "n", "A", "I", " ", "t", "e", "x", "t", " ", "c", "o", "m", "p", "l", "e", "t", "i", "o", "n", " ", "f", "a", "i", "l", "e", "d", ".">>
                        ELSE modelError[1].message)

C21_Witness ==
  /\ modelError # <<>>
  /\ modelError[1].status = 401
  /\ thrown[1] = UpstreamError("openai", 401, <<"I", "n", "c", "o", "r", "r", "e", "c", "t", " ", "A", "P", "I", " ", "k", "e", "y", " ", "p", "r", "o", "v", "i", "d", "e", "d">>)
  /\ response.status = 401

\* C22: when the model's trimmed text is not empty, generateSummaryHtml returns
\* it unchanged if it begins with "<", and otherwise returns it inside
\* <section><p>...</p></section> with every &, <, >, " and ' escaped
C22_TextWrappedOrPassed ==
  (Succeeded /\ modelText # None /\ Stripped(modelText) # <<>>) =>
    \A raw \in {Stripped(modelText)}, html \in {response.body[1].summary_html} :
      IF raw[1] = "<"
        THEN html = raw
        ELSE /\ Len(html) = 26 + Len(SubSeq(html, 13, Len(html) - 14))
             /\ SubSeq(html, 1, 12) = <<"<", "s", "e", "c", "t", "i", "o", "n", ">", "<", "p", ">">>
             /\ SubSeq(html, Len(html) - 13, Len(html)) = <<"<", "/", "p", ">", "<", "/", "s", "e", "c", "t", "i", "o", "n", ">">>
             /\ \A inner \in {SubSeq(html, 13, Len(html) - 14)} :
                   /\ NoRawSpecials(inner)
                   /\ Unescape(inner) = raw
                   /\ Len(inner) >= Len(raw)

C22_Witness ==
  /\ Succeeded
  /\ modelText = <<" ", "I", "t", "'", "s", " ", "\"", "d", "o", "n", "e", "\"", " ", "&", "a", "m", "p", ";", " ", "o", "u", "t", "\n">>
  /\ response.body[1].summary_html
       = <<"<", "s", "e", "c", "t", "i", "o", "n", ">", "<", "p", ">", "I", "t", "&", "#", "3", "9", ";", "s", " ", "&", "q", "u", "o", "t", ";", "d", "o", "n", "e", "&", "q", "u", "o", "t", ";", " ", "&", "a", "m", "p", ";", "a", "m", "p", ";", " ", "o", "u", "t", "<", "/", "p", ">", "<", "/", "s", "e", "c", "t", "i", "o", "n", ">">>

\* the text of s after its last "/", all of s when it has none
AfterLastSlash(s) ==
  LET slashes == {i \in 1..Len(s) : s[i] = "/"}
  IN  IF slashes = {} THEN s
      ELSE SubSeq(s, (CHOOSE i \in slashes : \A j \in slashes : j <= i) + 1, Len(s))

\* the model identifier the configuration gives
ConfiguredModel == Coalesce(env.OPENAI_MODEL, env.OPENAI_REALTIME_MODEL)

\* C23: for every configured model identifier normalizeModelName gives the text
\* after the last "/", so meta.model never holds a "/", and normalizing the
\* normalized identifier gives it back unchanged
C23_ModelNameStripped ==
  (pc # "idle" /\ ConfiguredModel # None /\ Stripped(ConfiguredModel) # <<>>) =>
    /\ ModelOf(env) = AfterLastSlash(Stripped(ConfiguredModel))
    /\ \A i \in 1..Len(ModelOf(env)) : ModelOf(env)[i] # "/"
    /\ NormalizeModelName(ModelOf(env)) = ModelOf(env)
    /\ Succeeded => response.body[1].meta.model = ModelOf(env)

\* the clock readings of this request up to now
ClockReadings == {ClockAt(RunBase + 10000 * k) : k \in 1..(elapsed \div 10000)}

\* C24: the date of every record of the batch is the author date when the host
\* gave one, else the committer date when the host gave one, else a reading of
\* the clock taken during retrieval
C24_DateFallbackChain ==
  \A raw \in {NonMergeRaw(rawPages)}, clock \in {ClockReadings} :
    /\ Len(normalized) = Len(raw)
    /\ \A i \in 1..Len(raw) :
          /\ normalized[i].date # None
          /\ IF raw[i].authorDate # None THEN normalized[i].date = raw[i].authorDate
             ELSE IF raw[i].committerDate # None
               THEN normalized[i].date = raw[i].committerDate
             ELSE normalized[i].date \in clock
    /\ Succeeded => response.body[1].commits = normalized

C24_Witness ==
  /\ Succeeded
  /\ \E i, j, k \in 1..Len(response.body[1].commits) :
        \A raw \in {NonMergeRaw(rawPages)} :
          /\ raw[i].authorDate # None /\ raw[i].committerDate # None
          /\ raw[i].authorDate # raw[i].committerDate
          /\ response.body[1].commits[i].date = raw[i].authorDate
          /\ raw[j].authorDate = None /\ raw[j].committerDate # None
          /\ response.body[1].commits[j].date = raw[j].committerDate
          /\ raw[k].authorDate = None /\ raw[k].committerDate = None
          /\ response.body[1].commits[k].date = <<"2", "0", "2", "5", "-", "0", "3", "-", "0", "1", "T", "1", "2", ":", "0", "0", ":", "2", "0", ".", "0", "0", "0", "Z">>

\* the request was turned away by the checks on its two dates
RejectedByValidation ==
  pc = "done" /\ hostCalls = 0 /\ timer = "unset" /\ response.status \in {400, 413}

\* C25: a request with two calendar dates passes validation exactly when start
\* is not after end and end - start + 1 is at most 30 days; a window that
\* passes reaches retrieval when the host is configured, and a window of 31
\* days is answered 413
C25_ValidationBoundary ==
  WellFormedRequest =>
    /\ ~RejectedByValidation
          <=> (~CivilAfter(start, end) /\ CalendarSpan(start, end) <= 30)
    /\ (ValidWindowRequest /\ ~HostConfigMissing) => (hostCalls >= 1 /\ requested # <<>>)
    /\ (ValidWindowRequest /\ HostConfigMissing) => response.status = 500
    /\ (~CivilAfter(start, end) /\ CalendarSpan(start, end) = 31)
          => (pc = "done" /\ response.status = 413)

C25_Witness ==
  /\ WellFormedRequest
  /\ start # end
  /\ CalendarSpan(start, end) = 30
  /\ hostCalls >= 1
  /\ Succeeded

\* C26: the timer is armed only for a request that passed the checks on its
\* dates and on the host configuration; it is armed exactly while the request
\* is waiting for the host or the model, and once the request has its
\* response the timer is no longer armed, so it cannot fire and abort
C26_TimerClearedOnExit ==
  /\ timer # "unset"
        <=> (pc # "idle" /\ ValidateWindow(start, end) = <<>> /\ CheckHostConfig(env) = <<>>)
  /\ (pc # "idle" /\ (Falsy(start) \/ Falsy(end))) => timer = "unset"
  /\ (WellFormedRequest /\ ~ValidWindowRequest) => timer = "unset"
  /\ (pc # "idle" /\ HostConfigMissing) => timer = "unset"
  /\ timer = "armed" <=> pc \in InFlight
  /\ pc = "done" => (timer # "armed" /\ ~ENABLED DeadlineFires)
  /\ aborted => (timer # "unset" /\ elapsed = TOTAL_TIMEOUT_MS)

C26_Witness ==
  /\ pc = "done"
  /\ timer = "cleared"
  /\ aborted
  /\ response.status = 504
  /\ ~ENABLED DeadlineFires

\* status, the report and the fetch error go together and at most one request
\* is in flight, and only while status is loading
HomeStatusCoherent ==
  /\ status = "success" => fetchError = <<>>
  /\ status = "error" => (fetchError # <<>> /\ data = <<>>)
  /\ inFlight <= 1
  /\ inFlight = 1 <=> status = "loading"

\* a submit whose two dates fail the client's validation
RefusedSubmit == lastEvent' = "submit" /\ HasErrors(Validate(dates.start, dates.end, zone))

\* a refused submit sends no request and leaves status, the report and the
\* fetch error alone
RefusedSubmitSendsNothing ==
  RefusedSubmit => /\ inFlight' = inFlight
                   /\ reply' = reply
                   /\ status' = status
                   /\ data' = data
                   /\ fetchError' = fetchError
                   /\ HasErrors(errors')
  /\ data = <<>>
  /\ lastBody = << <<>> >>
  /\ inFlight = 0
====
